---- MODULE Spec2Model ----
(***************************************************************************)
(* Model of the identifier-resolution and work-logging tools of jira-mcp.  *)
(* Text values that the code lowercases, uppercases, searches or matches   *)
(* against a regular expression are sequences of one-character strings;    *)
(* date strings, which the code only hands to a date parser, are atomic.   *)
(***************************************************************************)
EXTENDS Integers, Sequences, FiniteSets, TLC

(* ------------------------------ bounds --------------------------------- *)
MaxProjects == 2
MaxItems == 3
MaxCreateItems == 2

\* longest text drawn from TimeAlphabet
MaxTimeLen == 4

\* most JiraClientService instances constructed in one run
MaxClients == 2

(* --------------------------- text primitives --------------------------- *)
UpperLetters == <<"A","B","C","D","E","F","G","H","I","J","K","L","M",
                  "N","O","P","Q","R","S","T","U","V","W","X","Y","Z">>
LowerLetters == <<"a","b","c","d","e","f","g","h","i","j","k","l","m",
                  "n","o","p","q","r","s","t","u","v","w","x","y","z">>
Digits == {"0","1","2","3","4","5","6","7","8","9"}
Whitespace == {" ", "\t", "\n"}

IsUpperLetter(c) == \E i \in DOMAIN UpperLetters : UpperLetters[i] = c
IsLowerLetter(c) == \E i \in DOMAIN LowerLetters : LowerLetters[i] = c

LowerChar(c) ==
  IF IsUpperLetter(c)
    THEN LowerLetters[CHOOSE i \in DOMAIN UpperLetters : UpperLetters[i] = c]
    ELSE c

UpperChar(c) ==
  IF IsLowerLetter(c)
    THEN UpperLetters[CHOOSE i \in DOMAIN LowerLetters : LowerLetters[i] = c]
    ELSE c

\* str.lower()
Lower(s) == [i \in 1..Len(s) |-> LowerChar(s[i])]

\* str.upper()
Upper(s) == [i \in 1..Len(s) |-> UpperChar(s[i])]

Contains_NonEmpty(sub, s) ==
  /\ sub # <<>>
  /\ \E i \in 0..(Len(s) - Len(sub)) : SubSeq(s, i + 1, i + Len(sub)) = sub

\* the Python test `sub in s`
Contains(sub, s) ==
  \E i \in 0..(Len(s) - Len(sub)) : SubSeq(s, i + 1, i + Len(sub)) = sub

\* str.strip()
RECURSIVE LStrip(_)
LStrip(s) == IF s # <<>> /\ Head(s) \in Whitespace THEN LStrip(Tail(s)) ELSE s

RECURSIVE RStrip(_)
RStrip(s) ==
  IF s # <<>> /\ s[Len(s)] \in Whitespace
    THEN RStrip(SubSeq(s, 1, Len(s) - 1))
    ELSE s

Strip(s) == RStrip(LStrip(s))

\* the value None where the code expects a text
None == <<"None">>

(* ------------------------- regular expressions ------------------------- *)
\* r'^[A-Z]+-\d+$' under re.match: letters, a hyphen, digits; `$` also
\* matches just before one trailing newline.
RECURSIVE KeyShapeFrom(_, _)
KeyShapeFrom(s, st) ==
  IF s = <<>>
    THEN st = "digits"
    ELSE LET c == Head(s) IN
      CASE st = "start"   -> IsUpperLetter(c) /\ KeyShapeFrom(Tail(s), "letters")
        [] st = "letters" -> \/ IsUpperLetter(c) /\ KeyShapeFrom(Tail(s), "letters")
                             \/ c = "-" /\ KeyShapeFrom(Tail(s), "hyphen")
        [] st = "hyphen"  -> c \in Digits /\ KeyShapeFrom(Tail(s), "digits")
        [] st = "digits"  -> \/ c \in Digits /\ KeyShapeFrom(Tail(s), "digits")
                             \/ c = "\n" /\ Tail(s) = <<>>

MatchesIssueKeyPattern(s) == KeyShapeFrom(s, "start")

\* r"^(\d+[wdhm]\s*)+$" with re.IGNORECASE, applied to time_string.strip()
RECURSIVE TimeShapeFrom(_, _)
TimeShapeFrom(s, st) ==
  IF s = <<>>
    THEN st = "unit"
    ELSE LET c == Head(s) IN
      CASE st = "start"  -> c \in Digits /\ TimeShapeFrom(Tail(s), "digits")
        [] st = "digits" -> \/ c \in Digits /\ TimeShapeFrom(Tail(s), "digits")
                            \/ LowerChar(c) \in {"w","d","h","m"}
                               /\ TimeShapeFrom(Tail(s), "unit")
        [] st = "unit"   -> \/ c \in Whitespace /\ TimeShapeFrom(Tail(s), "unit")
                            \/ c \in Digits /\ TimeShapeFrom(Tail(s), "digits")

validate_time_format_NoStrip(time_string) == TimeShapeFrom(time_string, "start")

validate_time_format(time_string) == TimeShapeFrom(Strip(time_string), "start")

(* ---------------------------- tracker data ----------------------------- *)
\* Projects the tracker may hold; an empty description is an absent one.
ProjDEMO == [key |-> <<"D","E","M","O">>,
             name |-> <<"D","e","m","o"," ","O","p","s"," ","P","r","o","j","e","c","t">>,
             description |-> <<>>]
ProjDEV  == [key |-> <<"D","E","V">>,
             name |-> <<"D","e","v","e","l","o","p","m","e","n","t">>,
             description |-> <<"D","e","v"," ","t","e","a","m">>]
ProjOPS  == [key |-> <<"O","P","S">>,
             name |-> <<"O","p","s">>,
             description |-> <<"D","e","v"," ","t","o","o","l","s">>]

ProjectPool == {ProjDEMO, ProjDEV, ProjOPS}

\* Project lists the tracker can return: keys are unique within a list.
ProjectLists ==
  UNION { { l \in [1..n -> ProjectPool] :
              \A i, j \in 1..n : i # j => l[i].key # l[j].key } :
          n \in 0..MaxProjects }

\* Issues of the tracker, in creation order.
TrackerIssues ==
  << [key |-> <<"D","E","V","-","1">>, project |-> <<"D","E","V">>,
      summary |-> <<"F","i","x"," ","l","o","g","i","n">>],
     [key |-> <<"D","E","V","-","2">>, project |-> <<"D","E","V">>,
      summary |-> <<"L","o","g","i","n"," ","p","a","g","e">>],
     [key |-> <<"D","E","M","O","-","1">>, project |-> <<"D","E","M","O">>,
      summary |-> <<"S","e","t","u","p">>],
     [key |-> <<"O","P","S","-","1">>, project |-> <<"O","P","S">>,
      summary |-> <<"J","o","b"," ","a">>],
     [key |-> <<"O","P","S","-","2">>, project |-> <<"O","P","S">>,
      summary |-> <<"J","o","b"," ","b">>],
     [key |-> <<"O","P","S","-","3">>, project |-> <<"O","P","S">>,
      summary |-> <<"J","o","b"," ","c">>],
     [key |-> <<"O","P","S","-","4">>, project |-> <<"O","P","S">>,
      summary |-> <<"J","o","b"," ","d">>],
     [key |-> <<"O","P","S","-","5">>, project |-> <<"O","P","S">>,
      summary |-> <<"J","o","b"," ","e">>],
     [key |-> <<"O","P","S","-","6">>, project |-> <<"O","P","S">>,
      summary |-> <<"J","o","b"," ","f">>] >>

IssueExists(issue_key) ==
  \E n \in DOMAIN TrackerIssues : TrackerIssues[n].key = issue_key

\* The part of an issue key before its first hyphen.
RECURSIVE ProjectPrefix(_)
ProjectPrefix(issue_key) ==
  IF issue_key = <<>> \/ Head(issue_key) = "-"
    THEN <<>>
    ELSE <<Head(issue_key)>> \o ProjectPrefix(Tail(issue_key))

(* ------------------------------- inputs -------------------------------- *)
ProjectIdentifiers ==
  { <<"d","e","m","o">>, <<"D","E","V">>, <<"o","p","s">>,
    <<"t","o","o","l","s">>, <<"e">>, <<"z","z","z">>, <<>> }

IssueIdentifiers ==
  { <<"d","e","v","-","1">>, <<"D","E","M","O","-","1">>, <<"O","P","S","-","9">>,
    <<"D","E","V","-","1","\n">>,
    <<"f","i","x">>, <<"l","o","g","i","n">>, <<"j","o","b">>, <<"z","z","z">> }

TimeInputs ==
  { <<"1","h"," ","3","0","m">>, <<>>, <<"2"," ","h","o","u","r","s">> }

DateInputs == { "ontem", "15/03/2024", "not a date" }

(* ------------------------------- dates --------------------------------- *)
Today == "2024-03-15"
NoDate == "None"

\* dateparser.parse(text, languages=['pt'],
\*                  settings={'PREFER_DATES_FROM': 'past', 'DATE_ORDER': 'DMY'})
\* returns None, never raises, for a text it does not understand.
dateparser_parse(text) ==
  CASE text = "ontem"      -> "2024-03-14"
    [] text = "15/03/2024" -> "2024-03-15"
    [] text = "2024-03-14" -> "2024-03-14"
    [] OTHER               -> NoDate

\* dateutil parser.parse(text): raises ParserError for a text it does not
\* understand (it knows no Portuguese).
DateutilRaises(text) == text \notin {"15/03/2024", "2024-03-14"}

dateutil_parse(text) ==
  CASE text = "15/03/2024" -> "2024-03-15"
    [] text = "2024-03-14" -> "2024-03-14"
    [] OTHER               -> NoDate

\* the date texts of the inputs that datetime.strptime(text, '%Y-%m-%d')
\* accepts
IsoDateTexts == { "2024-03-14" }

(* ----------------------------- src/utils.py ---------------------------- *)
NoError == [kind |-> "none"]
IsError(e) == e.kind # "none"

ProjectMatches_NoDescription(project, normalized_identifier) ==
  LET key_match == Lower(project.key) = normalized_identifier
      name_match == Contains(normalized_identifier, Lower(project.name))
  IN key_match \/ name_match

\* the test of lines 36-43: key equality, or containment in name or description
ProjectMatches(project, normalized_identifier) ==
  LET key_match == Lower(project.key) = normalized_identifier
      name_match == Contains(normalized_identifier, Lower(project.name))
      description_match ==
        /\ project.description # <<>>
        /\ Contains(normalized_identifier, Lower(project.description))
  IN key_match \/ name_match \/ description_match

UniqueByKey_Reversed(found_projects) ==
  [k \in 1..Len(found_projects) |-> found_projects[Len(found_projects) + 1 - k]]

\* list({p.key: p for p in found_projects}.values()): one entry per key, at
\* the position of the key's first occurrence, holding its last occurrence.
UniqueByKey(found_projects) ==
  LET n == Len(found_projects)
      IsFirst(k) == \A j \in 1..(k - 1) : found_projects[j].key # found_projects[k].key
      LastOf(k) == CHOOSE j \in k..n :
                     /\ found_projects[j].key = found_projects[k].key
                     /\ \A m \in (j + 1)..n : found_projects[m].key # found_projects[k].key
      RECURSIVE Build(_)
      Build(k) == IF k > n THEN <<>>
                  ELSE IF IsFirst(k) THEN <<found_projects[LastOf(k)]>> \o Build(k + 1)
                  ELSE Build(k + 1)
  IN Build(1)

ProjectOutcome_NoNotFound(unique_projects, identifier) ==
  IF Len(unique_projects) = 1
    THEN [key |-> unique_projects[1].key, error |-> NoError]
    ELSE [key |-> None,
          error |-> [kind |-> "project_ambiguous", identifier |-> identifier,
                     candidates |-> [k \in 1..Len(unique_projects) |->
                                      unique_projects[k].key]]]

\* lines 49-55: one match resolves, several are ambiguous, none is not found
ProjectOutcome(unique_projects, identifier) ==
  IF Len(unique_projects) = 1
    THEN [key |-> unique_projects[1].key, error |-> NoError]
  ELSE IF Len(unique_projects) > 1
    THEN [key |-> None,
          error |-> [kind |-> "project_ambiguous", identifier |-> identifier,
                     candidates |-> [k \in 1..Len(unique_projects) |->
                                      unique_projects[k].key]]]
  ELSE [key |-> None,
        error |-> [kind |-> "project_not_found", identifier |-> identifier]]

\* fetch_ok = FALSE: jira_client.projects() raised
find_project_by_identifier(fetch_ok, all_projects, identifier) ==
  IF ~fetch_ok
    THEN [key |-> None, error |-> [kind |-> "project_fetch_error"]]
    ELSE
      LET normalized_identifier == Lower(identifier)
          found_projects ==
            SelectSeq(all_projects, LAMBDA p : ProjectMatches(p, normalized_identifier))
          unique_projects == UniqueByKey(found_projects)
      IN ProjectOutcome(unique_projects, identifier)

validate_project_access_SwallowError(fetch_ok, all_projects, project_identifier) ==
  LET r == find_project_by_identifier(fetch_ok, all_projects, project_identifier)
  IN [key |-> r.key, error |-> NoError]

validate_project_access(fetch_ok, all_projects, project_identifier) ==
  LET r == find_project_by_identifier(fetch_ok, all_projects, project_identifier)
  IN IF IsError(r.error)
       THEN [key |-> None, error |-> [kind |-> "project_error", cause |-> r.error]]
       ELSE [key |-> r.key, error |-> NoError]

MaxResults == 20

\* jira_client.search_issues('project = "<key>" AND summary ~ "<text>"
\* ORDER BY created DESC', maxResults=20)
search_issues(project_key, summary) ==
  LET n == Len(TrackerIssues)
      newest_first == [k \in 1..n |-> TrackerIssues[n + 1 - k]]
      hits == SelectSeq(newest_first,
                LAMBDA iss : /\ Lower(iss.project) = Lower(project_key)
                             /\ Contains(Lower(summary), Lower(iss.summary)))
  IN SubSeq(hits, 1, IF Len(hits) < MaxResults THEN Len(hits) ELSE MaxResults)

find_issue_by_summary_FirstOfMany(search_ok, project_key, summary) ==
  IF ~search_ok
    THEN [key |-> None, error |-> [kind |-> "issue_search_error"]]
    ELSE
      LET issues == search_issues(project_key, summary)
      IN IF Len(issues) >= 1
           THEN [key |-> issues[1].key, error |-> NoError]
         ELSE [key |-> None,
               error |-> [kind |-> "issue_not_found", summary |-> summary,
                          project_key |-> project_key]]

\* find_one = True; search_ok = FALSE: search_issues raised
find_issue_by_summary(search_ok, project_key, summary) ==
  IF ~search_ok
    THEN [key |-> None, error |-> [kind |-> "issue_search_error"]]
    ELSE
      LET issues == search_issues(project_key, summary)
      IN IF Len(issues) = 1
           THEN [key |-> issues[1].key, error |-> NoError]
         ELSE IF Len(issues) > 1
           THEN [key |-> None,
                 error |-> [kind |-> "issue_ambiguous",
                            candidates |-> [k \in 1..Len(issues) |-> issues[k].key]]]
         ELSE [key |-> None,
               error |-> [kind |-> "issue_not_found", summary |-> summary,
                          project_key |-> project_key]]

\* the test of line 161
IsKeyShaped(issue_identifier) == MatchesIssueKeyPattern(Upper(issue_identifier))

resolve_issue_identifier(search_ok, project_key, issue_identifier) ==
  IF IsKeyShaped(issue_identifier)
    THEN [key |-> Upper(issue_identifier), error |-> NoError]
    ELSE
      LET r == find_issue_by_summary(search_ok, project_key, issue_identifier)
      IN IF IsError(r.error)
           THEN [key |-> None, error |-> [kind |-> "issue_error", cause |-> r.error]]
           ELSE [key |-> r.key, error |-> NoError]

DateMissing_Never(work_datetime) == FALSE

\* `if not work_datetime`
DateMissing(work_datetime) == work_datetime = NoDate

\* The tracker records a worklog only on an existing issue and with a
\* duration of its grammar; any call can also fail for connectivity.
TrackerAcceptsWorklog(issue_key, time_spent) ==
  IssueExists(issue_key) /\ validate_time_format(time_spent)

log_work_for_issue_NoDateCheck(write_ok, issue_key, time_spent, work_start_date, work_description) ==
  LET work_datetime == dateparser_parse(work_start_date)
  IN IF write_ok
       THEN [success |-> TRUE, called |-> TRUE, started |-> work_datetime,
             message |-> [kind |-> "logged", time_spent |-> time_spent,
                          issue_key |-> issue_key]]
       ELSE [success |-> FALSE, called |-> TRUE, started |-> work_datetime,
             message |-> [kind |-> "log_failed", issue_key |-> issue_key]]

\* write_ok = FALSE: jira_client.add_worklog raised
log_work_for_issue(write_ok, issue_key, time_spent, work_start_date, work_description) ==
  LET work_datetime == dateparser_parse(work_start_date)
  IN IF DateMissing(work_datetime)
       THEN [success |-> FALSE, called |-> FALSE, started |-> work_datetime,
             message |-> [kind |-> "date_invalid", quoted |-> work_start_date]]
     ELSE IF write_ok
       THEN [success |-> TRUE, called |-> TRUE, started |-> work_datetime,
             message |-> [kind |-> "logged", time_spent |-> time_spent,
                          issue_key |-> issue_key]]
     ELSE [success |-> FALSE, called |-> TRUE, started |-> work_datetime,
           message |-> [kind |-> "log_failed", issue_key |-> issue_key]]

(* ------------------------------- state --------------------------------- *)
VARIABLES
  projects,       \* the tracker's project list
  tool,           \* the entry point being executed, "none" between calls
  input,          \* its tool_input
  pc,             \* its position
  project_key,    \* local: the resolved project key
  issue_key,      \* local: the resolved issue key
  work_datetime,  \* local: the parsed date
  i,              \* batch: index of the item of the loop
  report,         \* batch: the report list
  trace,          \* the calls made so far by the running entry point, in order
  written,        \* the worklogs the tracker recorded for the running entry point
  result,         \* the value returned (or the exception raised) by the entry point
  jira_client_service,  \* the global _jira_client_service: 0 for None, or
                        \* the number of the JiraClientService it holds
  clients,        \* the JiraClientService instances constructed so far
  returned        \* the instances get_jira_client returned since the last reset

vars == <<projects, tool, input, pc, project_key, issue_key, work_datetime,
          i, report, trace, written, result, jira_client_service, clients,
          returned>>

\* the state of the process-wide client handle
client_vars == <<jira_client_service, clients, returned>>

NoInput == [none |-> TRUE]
NoResult == [icon |-> "none", kind |-> "none"]

Entry(op, item, ok, arg) == [op |-> op, item |-> item, ok |-> ok, arg |-> arg]

\* calls made by validate_project_access, innermost first
ProjectTrace(fetch_ok, r) ==
  << Entry("projects", 0, fetch_ok, [none |-> TRUE]),
     Entry("validate_project_access", 0, r.key # None,
           [key |-> r.key, error |-> r.error]) >>

\* calls made by resolve_issue_identifier: the search only off the fast path
IssueTrace(item, search_ok, pkey, issue_identifier, r) ==
  (IF IsKeyShaped(issue_identifier)
     THEN <<>>
     ELSE << Entry("search_issues", item, search_ok,
                   [project_key |-> pkey, summary |-> issue_identifier]) >>)
  \o << Entry("resolve_issue_identifier", item, r.key # None,
              [project_key |-> pkey, identifier |-> issue_identifier,
               key |-> r.key, error |-> r.error]) >>

WorklogEntry(item, write_ok, ikey, time_spent, started) ==
  Entry("add_worklog", item, write_ok,
        [issue |-> ikey, timeSpent |-> time_spent, started |-> started])

Worklog(ikey, time_spent, started, comment) ==
  [issue |-> ikey, timeSpent |-> time_spent, started |-> started, comment |-> comment]

Init ==
  /\ projects \in ProjectLists
  /\ tool = "none"
  /\ input = NoInput
  /\ pc = "idle"
  /\ project_key = None
  /\ issue_key = None
  /\ work_datetime = NoDate
  /\ i = 0
  /\ report = <<>>
  /\ trace = <<>>
  /\ written = <<>>
  /\ result = NoResult
  /\ jira_client_service = 0
  /\ clients = <<>>
  /\ returned = {}

\* the entry point returns `r`
Finish(r) == /\ result' = r
             /\ pc' = "done"

\* the caller takes the result; the next call starts afresh
Return ==
  /\ pc = "done"
  /\ tool' = "none"
  /\ input' = NoInput
  /\ pc' = "idle"
  /\ project_key' = None
  /\ issue_key' = None
  /\ work_datetime' = NoDate
  /\ i' = 0
  /\ report' = <<>>
  /\ trace' = <<>>
  /\ written' = <<>>
  /\ result' = NoResult
  /\ UNCHANGED <<client_vars, projects>>

(* -------------------- src/tools/log_work_on_issue.py ------------------- *)
WorkDescriptions == { <<>> }

LogWorkInputs ==
  [project_identifier : ProjectIdentifiers, issue_identifier : IssueIdentifiers,
   time_spent : TimeInputs, work_start_date : DateInputs,
   work_description : WorkDescriptions]

LogWorkCall ==
  /\ pc = "idle"
  /\ \E tool_input \in LogWorkInputs : input' = tool_input
  /\ tool' = "log_work_on_issue"
  /\ pc' = "lw_client"
  /\ UNCHANGED <<client_vars, projects, project_key, issue_key, work_datetime, i, report,
                 trace, written, result>>

\* lines 44-45
LwExcept == [icon |-> "fail", kind |-> "exception"]

\* line 20; the JIRA constructor contacts the server and can raise
LwGetClient ==
  /\ pc = "lw_client"
  /\ \E client_ok \in BOOLEAN :
       IF client_ok
         THEN pc' = "lw_project" /\ UNCHANGED result
         ELSE Finish(LwExcept)
  /\ UNCHANGED <<client_vars, projects, tool, input, project_key, issue_key, work_datetime,
                 i, report, trace, written>>

\* lines 22-24
LwValidateProject ==
  /\ pc = "lw_project"
  /\ \E fetch_ok \in BOOLEAN :
       LET r == validate_project_access(fetch_ok, projects, input.project_identifier)
       IN /\ trace' = trace \o ProjectTrace(fetch_ok, r)
          /\ project_key' = r.key
          /\ IF IsError(r.error)
               THEN Finish([icon |-> "fail", kind |-> "error", error |-> r.error])
               ELSE pc' = "lw_issue" /\ UNCHANGED result
  /\ UNCHANGED <<client_vars, projects, tool, input, issue_key, work_datetime, i, report, written>>

\* lines 26-28
LwResolveIssue ==
  /\ pc = "lw_issue"
  /\ \E search_ok \in BOOLEAN :
       LET r == resolve_issue_identifier(search_ok, project_key, input.issue_identifier)
       IN /\ trace' = trace \o IssueTrace(0, search_ok, project_key,
                                          input.issue_identifier, r)
          /\ issue_key' = r.key
          /\ IF IsError(r.error)
               THEN Finish([icon |-> "fail", kind |-> "error", error |-> r.error])
               ELSE pc' = "lw_date" /\ UNCHANGED result
  /\ UNCHANGED <<client_vars, projects, tool, input, project_key, work_datetime, i, report, written>>

\* lines 30-32
LwParseDate ==
  /\ pc = "lw_date"
  /\ LET parsed == dateparser_parse(input.work_start_date)
     IN /\ work_datetime' = parsed
        /\ trace' = Append(trace, Entry("dateparser.parse", 0, parsed # NoDate,
                                        [text |-> input.work_start_date]))
        /\ IF DateMissing(parsed)
             THEN Finish([icon |-> "fail", kind |-> "date_not_understood",
                          quoted |-> input.work_start_date])
             ELSE pc' = "lw_write" /\ UNCHANGED result
  /\ UNCHANGED <<client_vars, projects, tool, input, project_key, issue_key, i, report, written>>

\* lines 34-45
LwAddWorklog ==
  /\ pc = "lw_write"
  /\ \E write_ok \in BOOLEAN :
       /\ write_ok => TrackerAcceptsWorklog(issue_key, input.time_spent)
       /\ trace' = Append(trace, WorklogEntry(0, write_ok, issue_key,
                                              input.time_spent, work_datetime))
       /\ IF write_ok
            THEN /\ written' = Append(written, Worklog(issue_key, input.time_spent,
                                        work_datetime, input.work_description))
                 /\ Finish([icon |-> "ok", kind |-> "logged", issue_key |-> issue_key,
                            time_spent |-> input.time_spent, date |-> work_datetime])
            ELSE /\ UNCHANGED written
                 /\ Finish(LwExcept)
  /\ UNCHANGED <<client_vars, projects, tool, input, project_key, issue_key, work_datetime, i, report>>

(* ------------------ src/tools/update_issue_estimates.py ---------------- *)
EstimateInputs == { <<>>, <<"4","h">> }

UpdateEstimatesInputs ==
  [project_identifier : ProjectIdentifiers, issue_identifier : IssueIdentifiers,
   original_estimate : EstimateInputs, remaining_estimate : EstimateInputs]

UpdateEstimatesCall ==
  /\ pc = "idle"
  /\ \E tool_input \in UpdateEstimatesInputs : input' = tool_input
  /\ tool' = "update_issue_estimates"
  /\ pc' = "es_check"
  /\ UNCHANGED <<client_vars, projects, project_key, issue_key, work_datetime, i, report,
                 trace, written, result>>

\* lines 45-46
EsExcept == [icon |-> "fail", kind |-> "exception"]

\* lines 19-20
EsCheckEstimates ==
  /\ pc = "es_check"
  /\ IF input.original_estimate = <<>> /\ input.remaining_estimate = <<>>
       THEN Finish([icon |-> "warn", kind |-> "no_estimate"])
       ELSE pc' = "es_client" /\ UNCHANGED result
  /\ UNCHANGED <<client_vars, projects, tool, input, project_key, issue_key, work_datetime,
                 i, report, trace, written>>

\* line 22
EsGetClient ==
  /\ pc = "es_client"
  /\ \E client_ok \in BOOLEAN :
       IF client_ok
         THEN pc' = "es_project" /\ UNCHANGED result
         ELSE Finish(EsExcept)
  /\ UNCHANGED <<client_vars, projects, tool, input, project_key, issue_key, work_datetime,
                 i, report, trace, written>>

\* lines 24-26
EsValidateProject ==
  /\ pc = "es_project"
  /\ \E fetch_ok \in BOOLEAN :
       LET r == validate_project_access(fetch_ok, projects, input.project_identifier)
       IN /\ trace' = trace \o ProjectTrace(fetch_ok, r)
          /\ project_key' = r.key
          /\ IF IsError(r.error)
               THEN Finish([icon |-> "fail", kind |-> "error", error |-> r.error])
               ELSE pc' = "es_issue" /\ UNCHANGED result
  /\ UNCHANGED <<client_vars, projects, tool, input, issue_key, work_datetime, i, report, written>>

\* lines 28-30
EsResolveIssue ==
  /\ pc = "es_issue"
  /\ \E search_ok \in BOOLEAN :
       LET r == resolve_issue_identifier(search_ok, project_key, input.issue_identifier)
       IN /\ trace' = trace \o IssueTrace(0, search_ok, project_key,
                                          input.issue_identifier, r)
          /\ issue_key' = r.key
          /\ IF IsError(r.error)
               THEN Finish([icon |-> "fail", kind |-> "error", error |-> r.error])
               ELSE pc' = "es_fetch" /\ UNCHANGED result
  /\ UNCHANGED <<client_vars, projects, tool, input, project_key, work_datetime, i, report, written>>

\* line 36: jira_client.issue raises for an unknown key or a lost connection
EsFetchIssue ==
  /\ pc = "es_fetch"
  /\ \E fetch_ok \in BOOLEAN :
       /\ fetch_ok => IssueExists(issue_key)
       /\ trace' = Append(trace, Entry("issue", 0, fetch_ok, [issue |-> issue_key]))
       /\ IF fetch_ok
            THEN pc' = "es_update" /\ UNCHANGED result
            ELSE Finish(EsExcept)
  /\ UNCHANGED <<client_vars, projects, tool, input, project_key, issue_key, work_datetime,
                 i, report, written>>

\* lines 37-46
EsUpdate ==
  /\ pc = "es_update"
  /\ \E update_ok \in BOOLEAN :
       /\ trace' = Append(trace, Entry("update", 0, update_ok,
                            [issue |-> issue_key,
                             originalEstimate |-> input.original_estimate,
                             remainingEstimate |-> input.remaining_estimate]))
       /\ IF update_ok
            THEN Finish([icon |-> "ok", kind |-> "estimates_updated",
                         issue_key |-> issue_key,
                         original |-> input.original_estimate # <<>>,
                         remaining |-> input.remaining_estimate # <<>>])
            ELSE Finish(EsExcept)
  /\ UNCHANGED <<client_vars, projects, tool, input, project_key, issue_key, work_datetime,
                 i, report, written>>

(* ------------------- src/tools/update_issue_status.py ------------------ *)
StatusInputs == { <<"D","o","n","e">> }

UpdateStatusInputs ==
  [project_identifier : ProjectIdentifiers, issue_identifier : IssueIdentifiers,
   new_status : StatusInputs]

UpdateStatusCall ==
  /\ pc = "idle"
  /\ \E tool_input \in UpdateStatusInputs : input' = tool_input
  /\ tool' = "update_issue_status"
  /\ pc' = "st_client"
  /\ UNCHANGED <<client_vars, projects, project_key, issue_key, work_datetime, i, report,
                 trace, written, result>>

\* lines 52-53
StExcept == [icon |-> "fail", kind |-> "exception"]

\* line 17
StGetClient ==
  /\ pc = "st_client"
  /\ \E client_ok \in BOOLEAN :
       IF client_ok
         THEN pc' = "st_project" /\ UNCHANGED result
         ELSE Finish(StExcept)
  /\ UNCHANGED <<client_vars, projects, tool, input, project_key, issue_key, work_datetime,
                 i, report, trace, written>>

\* lines 19-21
StValidateProject ==
  /\ pc = "st_project"
  /\ \E fetch_ok \in BOOLEAN :
       LET r == validate_project_access(fetch_ok, projects, input.project_identifier)
       IN /\ trace' = trace \o ProjectTrace(fetch_ok, r)
          /\ project_key' = r.key
          /\ IF IsError(r.error)
               THEN Finish([icon |-> "fail", kind |-> "error", error |-> r.error])
               ELSE pc' = "st_issue" /\ UNCHANGED result
  /\ UNCHANGED <<client_vars, projects, tool, input, issue_key, work_datetime, i, report, written>>

\* lines 23-25
StResolveIssue ==
  /\ pc = "st_issue"
  /\ \E search_ok \in BOOLEAN :
       LET r == resolve_issue_identifier(search_ok, project_key, input.issue_identifier)
       IN /\ trace' = trace \o IssueTrace(0, search_ok, project_key,
                                          input.issue_identifier, r)
          /\ issue_key' = r.key
          /\ IF IsError(r.error)
               THEN Finish([icon |-> "fail", kind |-> "error", error |-> r.error])
               ELSE pc' = "st_status" /\ UNCHANGED result
  /\ UNCHANGED <<client_vars, projects, tool, input, project_key, work_datetime, i, report, written>>

\* line 35: jira_client.transitions(issue), the transitions the tracker
\* offers for an issue, in the tracker's order
IssueTransitions ==
  << [id |-> "11", to |-> <<"I","n"," ","P","r","o","g","r","e","s","s">>],
     [id |-> "21", to |-> <<"I","n"," ","R","e","v","i","e","w">>] >>

\* line 27: utils defines no find_closest_status, so the attribute lookup
\* raises AttributeError, which line 52 turns into the returned message
StFindClosestStatus ==
  /\ pc = "st_status"
  /\ trace' = Append(trace, Entry("find_closest_status", 0, FALSE,
                                  [status |-> input.new_status]))
  /\ Finish(StExcept)
  /\ UNCHANGED <<client_vars, projects, tool, input, project_key, issue_key, work_datetime,
                 i, report, written>>

(* ---------------------- src/tools/batch_log_work.py -------------------- *)
WorkLogItems ==
  { [issue_identifier |-> <<"d","e","v","-","1">>,
     time_spent |-> <<"1","h"," ","3","0","m">>,
     work_start_date |-> "ontem", work_description |-> <<>>],
    [issue_identifier |-> <<"z","z","z">>,
     time_spent |-> <<"1","h"," ","3","0","m">>,
     work_start_date |-> "ontem", work_description |-> <<>>],
    [issue_identifier |-> <<"f","i","x">>,
     time_spent |-> <<"2"," ","h","o","u","r","s">>,
     work_start_date |-> "15/03/2024", work_description |-> <<>>],
    [issue_identifier |-> <<"D","E","M","O","-","1">>,
     time_spent |-> <<>>,
     work_start_date |-> "not a date", work_description |-> <<>>] }

WorkLogLists == UNION { [1..n -> WorkLogItems] : n \in 0..MaxItems }

BatchLogWorkInputs ==
  [project_identifier : ProjectIdentifiers, work_logs : WorkLogLists]

BatchLogWorkCall ==
  /\ pc = "idle"
  /\ \E tool_input \in BatchLogWorkInputs : input' = tool_input
  /\ tool' = "batch_log_work"
  /\ pc' = "bl_client"
  /\ UNCHANGED <<client_vars, projects, project_key, issue_key, work_datetime, i, report,
                 trace, written, result>>

\* lines 55-56
BlExcept == [icon |-> "fail", kind |-> "batch_exception"]

\* lines 24-25
BlGetClient ==
  /\ pc = "bl_client"
  /\ \E client_ok \in BOOLEAN :
       IF client_ok
         THEN pc' = "bl_project" /\ UNCHANGED result
         ELSE Finish(BlExcept)
  /\ UNCHANGED <<client_vars, projects, tool, input, project_key, issue_key, work_datetime,
                 i, report, trace, written>>

BlValidateProject_NoAbort ==
  /\ pc = "bl_project"
  /\ \E fetch_ok \in BOOLEAN :
       LET r == validate_project_access(fetch_ok, projects, input.project_identifier)
       IN /\ trace' = trace \o ProjectTrace(fetch_ok, r)
          /\ project_key' = r.key
          /\ IF input.work_logs = <<>>
               THEN Finish([icon |-> "none", kind |-> "no_items"]) /\ UNCHANGED i
               ELSE pc' = "bl_resolve" /\ i' = 1 /\ UNCHANGED result
  /\ UNCHANGED <<client_vars, projects, tool, input, issue_key, work_datetime, report, written>>

\* lines 27-32
BlValidateProject ==
  /\ pc = "bl_project"
  /\ \E fetch_ok \in BOOLEAN :
       LET r == validate_project_access(fetch_ok, projects, input.project_identifier)
       IN /\ trace' = trace \o ProjectTrace(fetch_ok, r)
          /\ project_key' = r.key
          /\ IF IsError(r.error)
               THEN Finish([icon |-> "fail", kind |-> "critical", error |-> r.error])
                    /\ UNCHANGED i
             ELSE IF input.work_logs = <<>>
               THEN Finish([icon |-> "none", kind |-> "no_items"]) /\ UNCHANGED i
             ELSE pc' = "bl_resolve" /\ i' = 1 /\ UNCHANGED result
  /\ UNCHANGED <<client_vars, projects, tool, input, issue_key, work_datetime, report, written>>

NextItem_StopOnFailure(new_report) ==
  IF i < Len(input.work_logs) /\ new_report[Len(new_report)].icon # "fail"
    THEN i' = i + 1 /\ pc' = "bl_resolve" /\ UNCHANGED result
    ELSE Finish([icon |-> "none", kind |-> "report", entries |-> new_report])
         /\ UNCHANGED i

\* the loop of line 34 moves to its next item, or line 53 returns the report
NextItem(new_report) ==
  IF i < Len(input.work_logs)
    THEN i' = i + 1 /\ pc' = "bl_resolve" /\ UNCHANGED result
    ELSE Finish([icon |-> "none", kind |-> "report", entries |-> new_report])
         /\ UNCHANGED i

\* lines 35-38
BlResolveIssue ==
  /\ pc = "bl_resolve"
  /\ \E search_ok \in BOOLEAN :
       LET log == input.work_logs[i]
           r == resolve_issue_identifier(search_ok, project_key, log.issue_identifier)
       IN /\ trace' = trace \o IssueTrace(i, search_ok, project_key,
                                          log.issue_identifier, r)
          /\ issue_key' = r.key
          /\ IF IsError(r.error)
               THEN LET new_report ==
                          Append(report, [icon |-> "fail", kind |-> "task_failed",
                                          quoted |-> log.issue_identifier,
                                          error |-> r.error])
                    IN report' = new_report /\ NextItem(new_report)
               ELSE pc' = "bl_log" /\ UNCHANGED <<i, report, result>>
  /\ UNCHANGED <<client_vars, projects, tool, input, project_key, work_datetime, written>>

ItemEntry_AlwaysOk(success, message) ==
  [icon |-> "ok", kind |-> "item", message |-> message]

\* lines 48-51
ItemEntry(success, message) ==
  [icon |-> IF success THEN "ok" ELSE "fail", kind |-> "item", message |-> message]

\* lines 40-51
BlLogWork ==
  /\ pc = "bl_log"
  /\ \E write_ok \in BOOLEAN :
       LET log == input.work_logs[i]
           r == log_work_for_issue(write_ok, issue_key, log.time_spent,
                                   log.work_start_date, log.work_description)
           new_report == Append(report, ItemEntry(r.success, r.message))
       IN /\ write_ok => TrackerAcceptsWorklog(issue_key, log.time_spent)
          /\ work_datetime' = r.started
          /\ trace' = trace
               \o << Entry("dateparser.parse", i, r.started # NoDate,
                           [text |-> log.work_start_date]) >>
               \o (IF r.called
                     THEN << WorklogEntry(i, write_ok, issue_key, log.time_spent,
                                          r.started) >>
                     ELSE <<>>)
          /\ written' = IF r.called /\ write_ok
                          THEN Append(written, Worklog(issue_key, log.time_spent,
                                          r.started, log.work_description))
                          ELSE written
          /\ report' = new_report
          /\ NextItem(new_report)
  /\ UNCHANGED <<client_vars, projects, tool, input, project_key, issue_key>>

(* ------------------ src/domain/services/worklog_service.py ------------- *)
ServiceIssueKeys == { <<"D","E","V","-","1">>, <<"O","P","S","-","9">> }
ServiceDates == { "", "2024-03-14", "15/03/2024", "ontem", "not a date" }

WorklogCreateInputs ==
  [issue_key : ServiceIssueKeys, time_spent : TimeInputs,
   work_date : ServiceDates, description : WorkDescriptions]

\* WorklogService._parse_work_date
parse_work_date(work_date) ==
  IF work_date = ""
    THEN Today
  ELSE IF DateutilRaises(work_date)
    THEN Today
  ELSE dateutil_parse(work_date)

AddWorklogToIssueCall ==
  /\ pc = "idle"
  /\ \E worklog_input \in WorklogCreateInputs : input' = worklog_input
  /\ tool' = "add_worklog_to_issue"
  /\ pc' = "sv_date"
  /\ UNCHANGED <<client_vars, projects, project_key, issue_key, work_datetime, i, report,
                 trace, written, result>>

\* line 54
SvParseWorkDate ==
  /\ pc = "sv_date"
  /\ work_datetime' = parse_work_date(input.work_date)
  /\ trace' = Append(trace, Entry("parser.parse", 0,
                       input.work_date # "" /\ ~DateutilRaises(input.work_date),
                       [text |-> input.work_date]))
  /\ pc' = "sv_issue"
  /\ UNCHANGED <<client_vars, projects, tool, input, project_key, issue_key, i, report,
                 written, result>>

\* lines 57-61
SvGetIssue ==
  /\ pc = "sv_issue"
  /\ \E fetch_ok \in BOOLEAN :
       /\ fetch_ok => IssueExists(input.issue_key)
       /\ trace' = Append(trace, Entry("issue", 0, fetch_ok,
                                       [issue |-> input.issue_key]))
       /\ IF fetch_ok
            THEN pc' = "sv_write" /\ UNCHANGED result
            ELSE Finish([icon |-> "raise", kind |-> "IssueNotFoundError"])
  /\ UNCHANGED <<client_vars, projects, tool, input, project_key, issue_key, work_datetime,
                 i, report, written>>

\* lines 64-69, with JiraClientService.add_worklog
SvAddWorklog ==
  /\ pc = "sv_write"
  /\ \E outcome \in {"ok", "not_found", "error"} :
       /\ outcome = "ok" => TrackerAcceptsWorklog(input.issue_key, input.time_spent)
       /\ trace' = Append(trace, WorklogEntry(0, outcome = "ok", input.issue_key,
                                              input.time_spent, work_datetime))
       /\ CASE outcome = "ok" ->
                 /\ written' = Append(written, Worklog(input.issue_key,
                                        input.time_spent, work_datetime,
                                        input.description))
                 /\ pc' = "sv_url"
                 /\ UNCHANGED result
            [] outcome = "not_found" ->
                 /\ UNCHANGED written
                 /\ Finish([icon |-> "raise", kind |-> "IssueNotFoundError"])
            [] outcome = "error" ->
                 /\ UNCHANGED written
                 /\ Finish([icon |-> "raise", kind |-> "JiraConnectionError"])
  /\ UNCHANGED <<client_vars, projects, tool, input, project_key, issue_key, work_datetime,
                 i, report>>

\* line 73: JiraClientService defines no get_issue_url, so the call raises
\* AttributeError, which lines 96-101 re-raise as JiraConnectionError
SvGetIssueUrl ==
  /\ pc = "sv_url"
  /\ trace' = Append(trace, Entry("get_issue_url", 0, FALSE,
                                  [issue |-> input.issue_key]))
  /\ Finish([icon |-> "raise", kind |-> "JiraConnectionError"])
  /\ UNCHANGED <<client_vars, projects, tool, input, project_key, issue_key, work_datetime,
                 i, report, written>>

(* -------------------- src/tools/batch_create_issues.py ----------------- *)
DigitChars == <<"0","1","2","3","4","5","6","7","8","9">>

\* positions of the create_issue calls that completed in a project
CreatedIn(pkey) ==
  { k \in DOMAIN trace :
      trace[k].op = "create_issue" /\ trace[k].ok /\ trace[k].arg.project = pkey }

\* the key the tracker gives to the next issue of a project
NewIssueKey(pkey) ==
  LET existing == { n \in DOMAIN TrackerIssues : TrackerIssues[n].project = pkey }
      number == Cardinality(existing) + Cardinality(CreatedIn(pkey)) + 1
  IN pkey \o <<"-", DigitChars[number + 1]>>

IssuesToCreate ==
  { [project_name_or_key |-> <<"D","E","V">>, summary |-> <<"a">>,
     description |-> <<>>, issuetype |-> "Task", original_estimate |-> <<>>,
     time_spent |-> <<>>, work_start_date |-> ""],
    [project_name_or_key |-> <<"z","z","z">>, summary |-> <<"b">>,
     description |-> <<>>, issuetype |-> "Task", original_estimate |-> <<>>,
     time_spent |-> <<>>, work_start_date |-> ""],
    [project_name_or_key |-> <<"D","E","V">>, summary |-> <<"c">>,
     description |-> <<>>, issuetype |-> "Task", original_estimate |-> <<"4","h">>,
     time_spent |-> <<"1","h"," ","3","0","m">>, work_start_date |-> "2024-03-14"],
    [project_name_or_key |-> <<"o","p","s">>, summary |-> <<"d">>,
     description |-> <<>>, issuetype |-> "Bug", original_estimate |-> <<>>,
     time_spent |-> <<"1","h"," ","3","0","m">>, work_start_date |-> ""] }

IssueCreateLists == UNION { [1..n -> IssuesToCreate] : n \in 0..MaxCreateItems }

BatchCreateIssuesInputs == [issues_to_create : IssueCreateLists]

BatchCreateIssuesCall ==
  /\ pc = "idle"
  /\ \E tool_input \in BatchCreateIssuesInputs : input' = tool_input
  /\ tool' = "batch_create_issues"
  /\ pc' = "bc_client"
  /\ UNCHANGED <<client_vars, projects, project_key, issue_key, work_datetime, i, report,
                 trace, written, result>>

\* lines 82-83
BcExcept == [icon |-> "fail", kind |-> "batch_exception"]

\* lines 27-31
BcGetClient ==
  /\ pc = "bc_client"
  /\ \E client_ok \in BOOLEAN :
       IF ~client_ok
         THEN Finish(BcExcept) /\ UNCHANGED i
       ELSE IF input.issues_to_create = <<>>
         THEN Finish([icon |-> "none", kind |-> "no_items"]) /\ UNCHANGED i
       ELSE pc' = "bc_project" /\ i' = 1 /\ UNCHANGED result
  /\ UNCHANGED <<client_vars, projects, tool, input, project_key, issue_key, work_datetime,
                 report, trace, written>>

\* the loop of line 33 moves to its next item, or line 80 returns the report
BcNextItem(new_report) ==
  IF i < Len(input.issues_to_create)
    THEN i' = i + 1 /\ pc' = "bc_project" /\ UNCHANGED result
    ELSE Finish([icon |-> "none", kind |-> "report", entries |-> new_report])
         /\ UNCHANGED i

\* calls made by validate_project_access for one item of a batch
ItemProjectTrace(item, fetch_ok, r) ==
  << Entry("projects", item, fetch_ok, [none |-> TRUE]),
     Entry("validate_project_access", item, r.key # None,
           [key |-> r.key, error |-> r.error]) >>

\* lines 35-38
BcValidateProject ==
  /\ pc = "bc_project"
  /\ \E fetch_ok \in BOOLEAN :
       LET issue_data == input.issues_to_create[i]
           r == validate_project_access(fetch_ok, projects,
                                        issue_data.project_name_or_key)
       IN /\ trace' = trace \o ItemProjectTrace(i, fetch_ok, r)
          /\ project_key' = r.key
          /\ IF IsError(r.error)
               THEN LET new_report ==
                          Append(report, [icon |-> "fail", kind |-> "item_failed",
                                          quoted |-> issue_data.summary,
                                          error |-> r.error])
                    IN report' = new_report /\ BcNextItem(new_report)
               ELSE pc' = "bc_create" /\ UNCHANGED <<i, report, result>>
  /\ UNCHANGED <<client_vars, projects, tool, input, issue_key, work_datetime, written>>

\* lines 74-78: the entry of an item whose try block raised
CreateFailedEntry(issue_data) ==
  [icon |-> "fail", kind |-> "create_failed", quoted |-> issue_data.summary]

\* lines 41-55 and 71-78
BcCreateIssue ==
  /\ pc = "bc_create"
  /\ \E create_ok \in BOOLEAN :
       LET issue_data == input.issues_to_create[i]
           new_key == NewIssueKey(project_key)
       IN /\ trace' = Append(trace, Entry("create_issue", i, create_ok,
                               [project |-> project_key, key |-> new_key,
                                summary |-> issue_data.summary,
                                originalEstimate |-> issue_data.original_estimate]))
          /\ IF ~create_ok
               THEN LET new_report == Append(report, CreateFailedEntry(issue_data))
                    IN /\ report' = new_report
                       /\ BcNextItem(new_report)
                       /\ UNCHANGED issue_key
             ELSE IF issue_data.time_spent # <<>> /\ issue_data.work_start_date # ""
               THEN /\ issue_key' = new_key
                    /\ pc' = "bc_date"
                    /\ UNCHANGED <<i, report, result>>
             ELSE LET new_report ==
                        Append(report, [icon |-> "ok", kind |-> "created",
                                        issue_key |-> new_key])
                  IN /\ issue_key' = new_key
                     /\ report' = new_report
                     /\ BcNextItem(new_report)
  /\ UNCHANGED <<client_vars, projects, tool, input, project_key, work_datetime, written>>

\* line 56: utils defines no is_valid_date, so the attribute lookup raises
\* AttributeError inside the try of line 51, and line 77 reports the item
BcIsValidDate ==
  /\ pc = "bc_date"
  /\ LET issue_data == input.issues_to_create[i]
         new_report == Append(report, CreateFailedEntry(issue_data))
     IN /\ trace' = Append(trace, Entry("is_valid_date", i, FALSE,
                             [text |-> issue_data.work_start_date]))
        /\ report' = new_report
        /\ BcNextItem(new_report)
  /\ UNCHANGED <<client_vars, projects, tool, input, project_key, issue_key, work_datetime,
                 written>>

(* ------------------------ src/tools/create_issue.py --------------------- *)
CreateIssueInputs ==
  [project_name_or_key : { <<"D","E","V">>, <<"z","z","z">> },
   summary : { <<"c">> },
   original_estimate : { <<>> },
   time_spent : { <<>>, <<"1","h"," ","3","0","m">> },
   work_start_date : { "", "2024-03-14", "not a date" }]

CreateIssueCall ==
  /\ pc = "idle"
  /\ \E tool_input \in CreateIssueInputs : input' = tool_input
  /\ tool' = "create_issue"
  /\ pc' = "ci_client"
  /\ UNCHANGED <<client_vars, projects, project_key, issue_key, work_datetime, i, report,
                 trace, written, result>>

\* what a call can raise: the tracker library's JIRAError or anything else
Exceptions == { "JIRAError", "ConnectionError" }

CiExcept_OnlyJiraError(exc) ==
  IF exc = "JIRAError"
    THEN [icon |-> "fail", kind |-> "jira_error"]
    ELSE [icon |-> "raise", kind |-> exc]

\* lines 66-70: the two except clauses of the entry point
CiExcept(exc) ==
  IF exc = "JIRAError"
    THEN [icon |-> "fail", kind |-> "jira_error"]
    ELSE [icon |-> "fail", kind |-> "exception"]

\* line 28
CiGetClient ==
  /\ pc = "ci_client"
  /\ \E client_ok \in BOOLEAN :
       IF client_ok
         THEN pc' = "ci_project" /\ UNCHANGED result
         ELSE \E exc \in Exceptions : Finish(CiExcept(exc))
  /\ UNCHANGED <<client_vars, projects, tool, input, project_key, issue_key, work_datetime,
                 i, report, trace, written>>

\* lines 30-32
CiValidateProject ==
  /\ pc = "ci_project"
  /\ \E fetch_ok \in BOOLEAN :
       LET r == validate_project_access(fetch_ok, projects,
                                        input.project_name_or_key)
       IN /\ trace' = trace \o ProjectTrace(fetch_ok, r)
          /\ project_key' = r.key
          /\ IF IsError(r.error)
               THEN Finish([icon |-> "fail", kind |-> "error", error |-> r.error])
               ELSE pc' = "ci_user" /\ UNCHANGED result
  /\ UNCHANGED <<client_vars, projects, tool, input, issue_key, work_datetime, i, report, written>>

\* lines 41-46: config.JIRA_USERNAME is always set (config.py refuses to
\* load without it); get_user_account_id_by_email returns an account id or
\* an error message and raises nothing
CiLookupUser ==
  /\ pc = "ci_user"
  /\ \E account_found \in BOOLEAN :
       trace' = Append(trace, Entry("search_users", 0, account_found, [none |-> TRUE]))
  /\ pc' = "ci_create"
  /\ UNCHANGED <<client_vars, projects, tool, input, project_key, issue_key, work_datetime,
                 i, report, written, result>>

\* lines 34-39 and 48-64
CiCreateIssue ==
  /\ pc = "ci_create"
  /\ \E create_ok \in BOOLEAN :
       LET new_key == NewIssueKey(project_key)
       IN /\ trace' = Append(trace, Entry("create_issue", 0, create_ok,
                               [project |-> project_key, key |-> new_key,
                                summary |-> input.summary,
                                originalEstimate |-> input.original_estimate,
                                assignee |-> trace[Len(trace)].ok]))
          /\ IF ~create_ok
               THEN /\ \E exc \in Exceptions : Finish(CiExcept(exc))
                    /\ UNCHANGED issue_key
             ELSE IF input.time_spent = <<>>
               THEN /\ issue_key' = new_key
                    /\ Finish([icon |-> "ok", kind |-> "created", issue_key |-> new_key])
             ELSE IF input.work_start_date = ""
               THEN /\ issue_key' = new_key
                    /\ Finish([icon |-> "fail", kind |-> "date_required"])
             ELSE /\ issue_key' = new_key
                  /\ pc' = "ci_date"
                  /\ UNCHANGED result
  /\ UNCHANGED <<client_vars, projects, tool, input, project_key, work_datetime, i, report,
                 written>>

\* line 58: utils defines no is_valid_date, so the attribute lookup raises
\* AttributeError after the issue was created, and line 70 returns the message
CiIsValidDate ==
  /\ pc = "ci_date"
  /\ trace' = Append(trace, Entry("is_valid_date", 0, FALSE,
                                  [text |-> input.work_start_date]))
  /\ Finish(CiExcept("AttributeError"))
  /\ UNCHANGED <<client_vars, projects, tool, input, project_key, issue_key, work_datetime,
                 i, report, written>>

(* ------- src/infrastructure/jira_client.py, project_service.py --------- *)
\* what self._client.projects() can do: answer, raise the tracker library's
\* JIRAError, or raise something else
FetchOutcomes == { "ok", "JIRAError", "ConnectionError" }

NoException == [type |-> "none"]

find_project_NoExactKeyFirst(fetch, all_projects, identifier) ==
  IF fetch = "JIRAError"
    THEN [key |-> None, error |-> NoError,
          raised |-> [type |-> "JiraConnectionError"]]
  ELSE IF fetch # "ok"
    THEN [key |-> None, error |-> [kind |-> "project_search_error"],
          raised |-> NoException]
  ELSE
    LET identifier_lower == Lower(identifier)
        matches == SelectSeq(all_projects,
                     LAMBDA project :
                       \/ Lower(project.key) = identifier_lower
                       \/ Contains(identifier_lower, Lower(project.name))
                       \/ /\ project.description # <<>>
                          /\ Contains(identifier_lower, Lower(project.description)))
    IN IF Len(matches) = 1
         THEN [key |-> matches[1].key, error |-> NoError, raised |-> NoException]
       ELSE IF Len(matches) > 1
         THEN [key |-> None,
               error |-> [kind |-> "project_ambiguous", identifier |-> identifier,
                          candidates |-> [k \in 1..Len(matches) |-> matches[k].key]],
               raised |-> NoException]
       ELSE [key |-> None,
             error |-> [kind |-> "project_not_found", identifier |-> identifier],
             raised |-> NoException]

\* JiraClientService.find_project: the pair it returns, or what it raises
find_project(fetch, all_projects, identifier) ==
  IF fetch = "JIRAError"
    THEN [key |-> None, error |-> NoError,
          raised |-> [type |-> "JiraConnectionError"]]
  ELSE IF fetch # "ok"
    THEN [key |-> None, error |-> [kind |-> "project_search_error"],
          raised |-> NoException]
  ELSE
    LET identifier_lower == Lower(identifier)
        exact == SelectSeq(all_projects,
                   LAMBDA project : Lower(project.key) = identifier_lower)
        matches == SelectSeq(all_projects,
                     LAMBDA project :
                       \/ Contains(identifier_lower, Lower(project.name))
                       \/ /\ project.description # <<>>
                          /\ Contains(identifier_lower, Lower(project.description)))
    IN IF exact # <<>>
         THEN [key |-> exact[1].key, error |-> NoError, raised |-> NoException]
       ELSE IF Len(matches) = 1
         THEN [key |-> matches[1].key, error |-> NoError, raised |-> NoException]
       ELSE IF Len(matches) > 1
         THEN [key |-> None,
               error |-> [kind |-> "project_ambiguous", identifier |-> identifier,
                          candidates |-> [k \in 1..Len(matches) |-> matches[k].key]],
               raised |-> NoException]
       ELSE [key |-> None,
             error |-> [kind |-> "project_not_found", identifier |-> identifier],
             raised |-> NoException]

\* ProjectNotFoundError(identifier): message "Project '<identifier>' not
\* found", error_code PROJECT_NOT_FOUND, and the identifier
ProjectNotFoundError(project_identifier) ==
  [type |-> "ProjectNotFoundError", error_code |-> "PROJECT_NOT_FOUND",
   project_identifier |-> project_identifier]

\* ProjectService.validate_project_access: the key it returns, or what it
\* raises (handle_service_error re-raises every JiraAgentError as it is)
ProjectService_validate_project_access(fetch, all_projects, identifier) ==
  LET r == find_project(fetch, all_projects, identifier)
  IN IF r.raised # NoException
       THEN [key |-> None, raised |-> r.raised]
     ELSE IF IsError(r.error)
       THEN [key |-> None, raised |-> ProjectNotFoundError(identifier)]
     ELSE [key |-> r.key, raised |-> NoException]

(* ----------- src/infrastructure/jira_client.py: get_jira_client -------- *)
\* JIRA(...): built, refused with status 401, refused otherwise, or failed
\* with another exception
ConstructOutcomes == { "ok", "JIRAError401", "JIRAError", "ConnectionError" }

\* test_connection: returns True, or raises JiraConnectionError (line 87)
TestOutcomes == { "ok", "JiraConnectionError" }

get_jira_client_AlwaysConstruct(handle, instances, construct, test) ==
  IF construct = "JIRAError401"
    THEN [handle |-> handle, clients |-> instances, returns |-> {},
          raised |-> [type |-> "JiraAuthenticationError"]]
  ELSE IF construct # "ok"
    THEN [handle |-> handle, clients |-> instances, returns |-> {},
          raised |-> [type |-> "JiraConnectionError"]]
  ELSE
    LET new == Len(instances) + 1
        made == Append(instances, [tested |-> test = "ok"])
    IN IF test = "ok"
         THEN [handle |-> new, clients |-> made, returns |-> {new},
               raised |-> NoException]
         ELSE [handle |-> new, clients |-> made, returns |-> {},
               raised |-> [type |-> "JiraConnectionError"]]

\* get_jira_client: the new value of the global, the instances constructed,
\* the instance returned (none when it raises) and the exception raised
get_jira_client(handle, instances, construct, test) ==
  IF handle # 0
    THEN [handle |-> handle, clients |-> instances, returns |-> {handle},
          raised |-> NoException]
  ELSE IF construct = "JIRAError401"
    THEN [handle |-> 0, clients |-> instances, returns |-> {},
          raised |-> [type |-> "JiraAuthenticationError"]]
  ELSE IF construct # "ok"
    THEN [handle |-> 0, clients |-> instances, returns |-> {},
          raised |-> [type |-> "JiraConnectionError"]]
  ELSE
    \* line 384 assigns the global before line 387 tests the connection
    LET new == Len(instances) + 1
        made == Append(instances, [tested |-> test = "ok"])
    IN IF test = "ok"
         THEN [handle |-> new, clients |-> made, returns |-> {new},
               raised |-> NoException]
         ELSE [handle |-> new, clients |-> made, returns |-> {},
               raised |-> [type |-> "JiraConnectionError"]]

GetJiraClientCall ==
  /\ pc = "idle"
  /\ input' = NoInput
  /\ tool' = "get_jira_client"
  /\ pc' = "gjc_run"
  /\ UNCHANGED <<client_vars, projects, project_key, issue_key, work_datetime,
                 i, report, trace, written, result>>

\* lines 372-399
GjcRun ==
  /\ pc = "gjc_run"
  /\ jira_client_service # 0 \/ Len(clients) < MaxClients
  /\ \E construct \in ConstructOutcomes, test \in TestOutcomes :
       LET r == get_jira_client(jira_client_service, clients, construct, test)
       IN /\ jira_client_service' = r.handle
          /\ clients' = r.clients
          /\ returned' = returned \cup r.returns
          /\ trace' = [k \in 1..(Len(r.clients) - Len(clients)) |->
                         Entry("JIRA", 0, TRUE, [instance |-> Len(clients) + k])]
          /\ IF r.raised = NoException
               THEN Finish([icon |-> "none", kind |-> "client",
                            instance |-> CHOOSE n \in r.returns : TRUE])
               ELSE Finish([icon |-> "raise", kind |-> r.raised.type])
  /\ UNCHANGED <<projects, tool, input, project_key, issue_key, work_datetime,
                 i, report, written>>

\* lines 402-405
ResetJiraClient ==
  /\ pc = "idle"
  /\ jira_client_service # 0
  /\ jira_client_service' = 0
  /\ returned' = {}
  /\ UNCHANGED <<clients, projects, tool, input, pc, project_key, issue_key,
                 work_datetime, i, report, trace, written, result>>

(* --------------------- src/tools/issue/list_issues.py ------------------- *)
ListIssuesInputs ==
  [project_identifier : { <<"e">>, <<"d","e","v">>, <<"t","o","o","l","s">>,
                          <<"z","z","z">> }]

ListIssuesCall ==
  /\ pc = "idle"
  /\ \E tool_input \in ListIssuesInputs : input' = tool_input
  /\ tool' = "list_issues"
  /\ pc' = "li_client"
  /\ UNCHANGED <<client_vars, projects, project_key, issue_key, work_datetime, i, report,
                 trace, written, result>>

\* lines 72-80
LiExcept(exc) ==
  IF exc = "JiraConnectionError"
    THEN [icon |-> "fail", kind |-> "list_failed"]
    ELSE [icon |-> "fail", kind |-> "unexpected_error"]

\* lines 41-43
LiGetClient ==
  /\ pc = "li_client"
  /\ jira_client_service # 0 \/ Len(clients) < MaxClients
  /\ \E construct \in ConstructOutcomes, test \in TestOutcomes :
       LET r == get_jira_client(jira_client_service, clients, construct, test)
       IN /\ jira_client_service' = r.handle
          /\ clients' = r.clients
          /\ returned' = returned \cup r.returns
          /\ IF r.raised = NoException
               THEN pc' = "li_project" /\ UNCHANGED result
               ELSE Finish(LiExcept(r.raised.type))
  /\ UNCHANGED <<projects, tool, input, project_key, issue_key, work_datetime,
                 i, report, trace, written>>

\* lines 46-49
LiValidateProject ==
  /\ pc = "li_project"
  /\ \E fetch \in FetchOutcomes :
       LET f == find_project(fetch, projects, input.project_identifier)
           r == ProjectService_validate_project_access(fetch, projects,
                                                       input.project_identifier)
       IN /\ trace' = trace \o
               << Entry("get_projects", 0, fetch = "ok", [none |-> TRUE]),
                  Entry("find_project", 0, f.key # None,
                        [identifier |-> input.project_identifier, key |-> f.key,
                         error |-> f.error, raised |-> f.raised]),
                  Entry("ProjectService.validate_project_access", 0, r.key # None,
                        [identifier |-> input.project_identifier, key |-> r.key,
                         raised |-> r.raised]) >>
          /\ project_key' = r.key
          /\ IF r.raised # NoException
               THEN Finish([icon |-> "fail", kind |-> "project_not_found_message",
                            exception |-> r.raised])
               ELSE pc' = "li_issues" /\ UNCHANGED result
  /\ UNCHANGED <<client_vars, projects, tool, input, issue_key, work_datetime, i, report, written>>

\* lines 52-70
LiGetIssues ==
  /\ pc = "li_issues"
  /\ \E outcome \in {"ok", "JiraConnectionError", "ValueError"} :
       /\ trace' = Append(trace, Entry("get_project_issues", 0, outcome = "ok",
                                       [project_key |-> project_key]))
       /\ IF outcome = "ok"
            THEN Finish([icon |-> "none", kind |-> "issue_list",
                         project_key |-> project_key])
            ELSE Finish(LiExcept(outcome))
  /\ UNCHANGED <<client_vars, projects, tool, input, project_key, issue_key, work_datetime,
                 i, report, written>>


(* -------------- src/core/validators.py, validation_service.py ---------- *)
\* a digit, two units in either case, a blank and a letter that is no unit
TimeAlphabet == { "2", "h", "M", " ", "x" }

\* the durations the documentation names, and two of its rejected texts
TimeExamples ==
  { <<"2","h"," ","3","0","m">>, <<"1","d">>, <<"4","h">>,
    <<"1","w"," ","2","d"," ","3","h"," ","4","m">>,
    <<"1","h"," ","2","h">>, <<"3","0","m"," ","2","h">>,
    <<"2"," ","h","o","u","r","s">>, <<"h","2">> }

TimeTexts ==
  TimeExamples \cup
  UNION { [1..n -> TimeAlphabet] : n \in 0..MaxTimeLen }

\* ValidationResult of ValidationService.validate_time_format
ValidationService_validate_time_format(time_str) ==
  IF time_str = <<>> \/ Strip(time_str) = <<>>
    THEN [is_valid |-> TRUE, errors |-> <<>>, sanitized_value |-> None]
  ELSE IF validate_time_format(Strip(time_str))
    THEN [is_valid |-> TRUE, errors |-> <<>>, sanitized_value |-> Strip(time_str)]
  ELSE [is_valid |-> FALSE, errors |-> << "invalid_time_format" >>,
        sanitized_value |-> None]

ValidateTimeCall ==
  /\ pc = "idle"
  /\ \E time_string \in TimeTexts : input' = [time_string |-> time_string]
  /\ tool' = "validate_time_format"
  /\ pc' = "vt_match"
  /\ UNCHANGED <<client_vars, projects, project_key, issue_key, work_datetime, i, report,
                 trace, written, result>>

\* the caller gets the validator's boolean and the service's ValidationResult
VtMatch ==
  /\ pc = "vt_match"
  /\ Finish([icon |-> "none", kind |-> "validation",
             valid |-> validate_time_format(input.time_string),
             service |-> ValidationService_validate_time_format(input.time_string)])
  /\ UNCHANGED <<client_vars, projects, tool, input, project_key, issue_key, work_datetime,
                 i, report, trace, written>>


(* -------------------- src/agents/issue_creator_agent.py ---------------- *)
\* _find_project_key_by_name_or_key: a key, an ambiguity message, or None.
\* The loop returns at the first project whose key equals the identifier,
\* whatever names it has collected before.
find_project_key_by_name_or_key(fetch_ok, all_projects, project_identifier) ==
  IF ~fetch_ok
    THEN [kind |-> "none"]
    ELSE
      LET normalized_identifier == Lower(project_identifier)
          exact == SelectSeq(all_projects,
                     LAMBDA project : Lower(project.key) = normalized_identifier)
          found_projects ==
            SelectSeq(all_projects,
              LAMBDA project : Contains(normalized_identifier, Lower(project.name)))
      IN IF exact # <<>>
           THEN [kind |-> "key", key |-> exact[1].key]
         ELSE IF Len(found_projects) = 1
           THEN [kind |-> "key", key |-> found_projects[1].key]
         ELSE IF Len(found_projects) > 1
           THEN [kind |-> "ambiguity_message",
                 candidates |-> [k \in 1..Len(found_projects) |->
                                   found_projects[k].key]]
         ELSE [kind |-> "none"]

AgentProjectIdentifiers ==
  { <<"o","p","s">>, <<"D","E","V">>, <<"o">>, <<"z","z","z">> }

FindProjectKeyCall ==
  /\ pc = "idle"
  /\ \E project_identifier \in AgentProjectIdentifiers :
       input' = [project_identifier |-> project_identifier]
  /\ tool' = "_find_project_key_by_name_or_key"
  /\ pc' = "fk_run"
  /\ UNCHANGED <<client_vars, projects, project_key, issue_key, work_datetime,
                 i, report, trace, written, result>>

\* lines 22-43
FkRun ==
  /\ pc = "fk_run"
  /\ \E fetch_ok \in BOOLEAN :
       LET r == find_project_key_by_name_or_key(fetch_ok, projects,
                                                input.project_identifier)
       IN /\ trace' = << Entry("agent.projects", 0, fetch_ok, [none |-> TRUE]),
                         Entry("_find_project_key_by_name_or_key", 0,
                               r.kind = "key",
                               [identifier |-> input.project_identifier,
                                value |-> r]) >>
          /\ Finish([icon |-> "none", kind |-> "value", value |-> r])
  /\ UNCHANGED <<client_vars, projects, tool, input, project_key, issue_key,
                 work_datetime, i, report, written>>


(* ------- issue lookup of jira_client.py and worklog_service.py --------- *)
\* what JiraClientService.search_issues can do: answer, or fail with the
\* tracker library's JIRAError (re-raised as JiraConnectionError), or fail
\* otherwise
SearchOutcomes == { "ok", "JIRAError", "ConnectionError" }

\* the keys of the first issues of a result list, five at most
FirstFive(issues) ==
  [k \in 1..(IF Len(issues) < 5 THEN Len(issues) ELSE 5) |-> issues[k].key]

\* JiraClientService.find_issue_by_summary
JiraClientService_find_issue_by_summary(search, pkey, summary) ==
  IF search = "JIRAError"
    THEN [key |-> None, error |-> NoError,
          raised |-> [type |-> "JiraConnectionError"]]
  ELSE IF search # "ok"
    THEN [key |-> None, error |-> [kind |-> "issue_search_error"],
          raised |-> NoException]
  ELSE
    LET issues == search_issues(pkey, summary)
    IN IF Len(issues) = 1
         THEN [key |-> issues[1].key, error |-> NoError, raised |-> NoException]
       ELSE IF Len(issues) > 1
         THEN [key |-> None,
               error |-> [kind |-> "issue_ambiguous", summary |-> summary,
                          listed |-> FirstFive(issues),
                          more |-> IF Len(issues) > 5 THEN Len(issues) - 5 ELSE 0],
               raised |-> NoException]
       ELSE [key |-> None,
             error |-> [kind |-> "issue_not_found", summary |-> summary,
                        project_key |-> pkey],
             raised |-> NoException]

\* line 154: the identifier has a hyphen and an upper-case letter
LooksLikeKey(issue_identifier) ==
  /\ \E n \in DOMAIN issue_identifier : issue_identifier[n] = "-"
  /\ \E n \in DOMAIN issue_identifier : IsUpperLetter(issue_identifier[n])

\* WorklogService.resolve_issue_identifier. JiraClientService defines no
\* search_issues_by_summary, so line 164 raises AttributeError; the handler
\* of lines 199-203 calls handle_service_error, which raises
\* JiraConnectionError, and lines 166-197 never run.
WorklogService_resolve_issue_identifier(get_ok, issue_identifier) ==
  IF LooksLikeKey(issue_identifier) /\ get_ok /\ IssueExists(issue_identifier)
    THEN [key |-> issue_identifier, error |-> NoError, raised |-> NoException]
    ELSE [key |-> None, error |-> NoError,
          raised |-> [type |-> "JiraConnectionError"]]

SummaryTexts == { <<"j","o","b">>, <<"l","o","g","i","n">>, <<"f","i","x">>,
                  <<"z","z","z">> }

FindIssueBySummaryCall ==
  /\ pc = "idle"
  /\ \E project \in ProjectPool, summary \in SummaryTexts :
       input' = [project_key |-> project.key, summary |-> summary]
  /\ tool' = "find_issue_by_summary"
  /\ pc' = "fs_run"
  /\ UNCHANGED <<client_vars, projects, project_key, issue_key, work_datetime,
                 i, report, trace, written, result>>

\* lines 213-230
FsRun ==
  /\ pc = "fs_run"
  /\ \E search \in SearchOutcomes :
       LET r == JiraClientService_find_issue_by_summary(search, input.project_key,
                                                        input.summary)
       IN /\ trace' = << Entry("JiraClientService.search_issues", 0, search = "ok",
                               [project_key |-> input.project_key,
                                summary |-> input.summary]),
                         Entry("lookup", 0, r.key # None,
                               [scope |-> input.project_key, text |-> input.summary,
                                key |-> r.key, error |-> r.error,
                                raised |-> r.raised]) >>
          /\ issue_key' = r.key
          /\ IF r.raised = NoException
               THEN Finish([icon |-> "none", kind |-> "value", value |-> r])
               ELSE Finish([icon |-> "raise", kind |-> r.raised.type])
  /\ UNCHANGED <<client_vars, projects, tool, input, project_key, work_datetime,
                 i, report, written>>

ServiceIssueIdentifiers ==
  { <<"j","o","b">>, <<"l","o","g","i","n">>, <<"D","E","V","-","1">>,
    <<"O","P","S","-","9">> }

ResolveIssueIdentifierCall ==
  /\ pc = "idle"
  /\ \E issue_identifier \in ServiceIssueIdentifiers :
       input' = [issue_identifier |-> issue_identifier]
  /\ tool' = "resolve_issue_identifier"
  /\ pc' = "ri_run"
  /\ UNCHANGED <<client_vars, projects, project_key, issue_key, work_datetime,
                 i, report, trace, written, result>>

\* lines 152-204
RiRun ==
  /\ pc = "ri_run"
  /\ \E get_ok \in BOOLEAN :
       LET r == WorklogService_resolve_issue_identifier(get_ok,
                                                        input.issue_identifier)
       IN /\ trace' =
               (IF LooksLikeKey(input.issue_identifier)
                  THEN << Entry("get_issue", 0,
                                get_ok /\ IssueExists(input.issue_identifier),
                                [issue |-> input.issue_identifier]) >>
                  ELSE <<>>)
               \o (IF r.key = None
                     THEN << Entry("search_issues_by_summary", 0, FALSE,
                                   [text |-> input.issue_identifier]) >>
                     ELSE <<>>)
               \o << Entry("lookup", 0, r.key # None,
                           [scope |-> <<>>, text |-> input.issue_identifier,
                            key |-> r.key, error |-> r.error,
                            raised |-> r.raised]) >>
          /\ issue_key' = r.key
          /\ IF r.raised = NoException
               THEN Finish([icon |-> "none", kind |-> "value", value |-> r])
               ELSE Finish([icon |-> "raise", kind |-> r.raised.type])
  /\ UNCHANGED <<client_vars, projects, tool, input, project_key, work_datetime,
                 i, report, written>>


(* ------------- src/core/validation_service.py: worklog data ------------ *)
IsDigits(s) == s # <<>> /\ \A n \in DOMAIN s : s[n] \in Digits

DigitValue(c) == CHOOSE v \in 0..9 : DigitChars[v + 1] = c

RECURSIVE Number(_)
Number(s) ==
  IF s = <<>> THEN 0
  ELSE Number(SubSeq(s, 1, Len(s) - 1)) * 10 + DigitValue(s[Len(s)])

DaysIn(year, month) ==
  IF month = 2
    THEN IF year % 4 = 0 /\ (year % 100 # 0 \/ year % 400 = 0) THEN 29 ELSE 28
  ELSE IF month \in {4, 6, 9, 11} THEN 30
  ELSE 31

\* the result of strptime for a text it rejects with ValueError
ValueError == [year |-> 0, month |-> 0, day |-> 0]

\* datetime.strptime(date_string, "%Y-%m-%d"): four digits, one or two
\* digits, one or two digits, and a day the month has
strptime_ymd(date_string) ==
  LET hyphens == { n \in DOMAIN date_string : date_string[n] = "-" }
  IN IF Cardinality(hyphens) # 2
       THEN ValueError
       ELSE
         LET a == CHOOSE n \in hyphens : \A m \in hyphens : n <= m
             b == CHOOSE n \in hyphens : \A m \in hyphens : m <= n
             y == SubSeq(date_string, 1, a - 1)
             m == SubSeq(date_string, a + 1, b - 1)
             d == SubSeq(date_string, b + 1, Len(date_string))
         IN IF /\ Len(y) = 4 /\ IsDigits(y)
               /\ Len(m) \in 1..2 /\ IsDigits(m)
               /\ Len(d) \in 1..2 /\ IsDigits(d)
               /\ Number(y) >= 1
               /\ Number(m) \in 1..12
               /\ Number(d) \in 1..DaysIn(Number(y), Number(m))
              THEN [year |-> Number(y), month |-> Number(m), day |-> Number(d)]
              ELSE ValueError

\* validators.validate_date_format
validate_date_format(date_string) == strptime_ymd(date_string) # ValueError

\* date.today(), as in Today
TodayDate == [year |-> 2024, month |-> 3, day |-> 15]

IsAfter(x, y) ==
  \/ x.year > y.year
  \/ x.year = y.year /\ x.month > y.month
  \/ x.year = y.year /\ x.month = y.month /\ x.day > y.day

\* ValidationService.validate_date_format
ValidationService_validate_date_format(date_str, required) ==
  IF date_str = <<>> \/ Strip(date_str) = <<>>
    THEN IF required
           THEN [is_valid |-> FALSE, errors |-> << "date_required" >>,
                 sanitized_value |-> None]
           ELSE [is_valid |-> TRUE, errors |-> <<>>, sanitized_value |-> None]
  ELSE IF ~validate_date_format(Strip(date_str))
    THEN [is_valid |-> FALSE, errors |-> << "invalid_date_format" >>,
          sanitized_value |-> None]
  ELSE IF IsAfter(strptime_ymd(Strip(date_str)), TodayDate)
    THEN [is_valid |-> FALSE, errors |-> << "date_in_future" >>,
          sanitized_value |-> None]
  ELSE [is_valid |-> TRUE, errors |-> <<>>, sanitized_value |-> Strip(date_str)]

validate_worklog_data_DateOptional(time_spent, work_date, description) ==
  LET time_result == ValidationService_validate_time_format(time_spent)
      date_result == ValidationService_validate_date_format(work_date, FALSE)
      errors == time_result.errors \o date_result.errors
  IN [is_valid |-> errors = <<>>, errors |-> errors,
      sanitized_value |-> [time_spent |-> time_result.sanitized_value,
                           work_date |-> date_result.sanitized_value,
                           description |-> Strip(description)]]

\* ValidationService.validate_worklog_data; the description is only
\* sanitized and adds no error
validate_worklog_data(time_spent, work_date, description) ==
  LET time_result == ValidationService_validate_time_format(time_spent)
      date_required == time_spent # <<>> /\ Strip(time_spent) # <<>>
      date_result == ValidationService_validate_date_format(work_date, date_required)
      errors == time_result.errors \o date_result.errors
  IN [is_valid |-> errors = <<>>, errors |-> errors,
      sanitized_value |-> [time_spent |-> time_result.sanitized_value,
                           work_date |-> date_result.sanitized_value,
                           description |-> Strip(description)]]

WorklogTimes ==
  { <<>>, <<" ">>, <<"2","h">>, <<" ","2","h"," ">>, <<"2"," ","h","o","u","r","s">> }

WorklogDates ==
  { <<>>, <<" "," ">>,
    <<"2","0","2","4","-","0","3","-","1","4">>,
    <<"2","0","2","4","-","0","3","-","1","6">>,
    <<"2","0","2","4","-","0","2","-","3","0">>,
    <<"1","4","/","0","3","/","2","0","2","4">> }

ValidateWorklogCall ==
  /\ pc = "idle"
  /\ \E time_spent \in WorklogTimes, work_date \in WorklogDates :
       input' = [time_spent |-> time_spent, work_date |-> work_date,
                 description |-> <<>>]
  /\ tool' = "validate_worklog_data"
  /\ pc' = "vw_run"
  /\ UNCHANGED <<client_vars, projects, project_key, issue_key, work_datetime,
                 i, report, trace, written, result>>

\* lines 298-327
VwRun ==
  /\ pc = "vw_run"
  /\ Finish([icon |-> "none", kind |-> "validation",
             value |-> validate_worklog_data(input.time_spent, input.work_date,
                                             input.description)])
  /\ UNCHANGED <<client_vars, projects, tool, input, project_key, issue_key,
                 work_datetime, i, report, trace, written>>

(* --------------------------- specification ----------------------------- *)
Next ==
  \/ LogWorkCall
  \/ LwGetClient
  \/ LwValidateProject
  \/ LwResolveIssue
  \/ LwParseDate
  \/ LwAddWorklog
  \/ UpdateEstimatesCall
  \/ EsCheckEstimates
  \/ EsGetClient
  \/ EsValidateProject
  \/ EsResolveIssue
  \/ EsFetchIssue
  \/ EsUpdate
  \/ UpdateStatusCall
  \/ StGetClient
  \/ StValidateProject
  \/ StResolveIssue
  \/ StFindClosestStatus
  \/ BatchLogWorkCall
  \/ BlGetClient
  \/ BlValidateProject
  \/ BlResolveIssue
  \/ BlLogWork
  \/ BatchCreateIssuesCall
  \/ BcGetClient
  \/ BcValidateProject
  \/ BcCreateIssue
  \/ BcIsValidDate
  \/ AddWorklogToIssueCall
  \/ SvParseWorkDate
  \/ SvGetIssue
  \/ SvAddWorklog
  \/ SvGetIssueUrl
  \/ CreateIssueCall
  \/ CiGetClient
  \/ CiValidateProject
  \/ CiLookupUser
  \/ CiCreateIssue
  \/ CiIsValidDate
  \/ ValidateTimeCall
  \/ VtMatch
  \/ ValidateWorklogCall
  \/ VwRun
  \/ Return

Spec == Init /\ [][Next]_vars

\* the entry points built on the process-wide client of
\* infrastructure/jira_client.py
NextService ==
  \/ GetJiraClientCall
  \/ GjcRun
  \/ ResetJiraClient
  \/ ListIssuesCall
  \/ LiGetClient
  \/ LiValidateProject
  \/ LiGetIssues
  \/ FindProjectKeyCall
  \/ FkRun
  \/ FindIssueBySummaryCall
  \/ FsRun
  \/ ResolveIssueIdentifierCall
  \/ RiRun
  \/ Return

SpecService == Init /\ [][NextService]_vars

(* ------------------------------ properties ----------------------------- *)
\* positions of the calls of one operation in the trace
Calls(op) == { k \in DOMAIN trace : trace[k].op = op }

\* operations that are scoped to an issue
IssueScopedOps ==
  { "search_issues", "resolve_issue_identifier", "issue", "add_worklog",
    "update", "find_closest_status" }

UtilsTools ==
  { "log_work_on_issue", "update_issue_estimates", "update_issue_status",
    "batch_log_work" }

\* C1: whenever the project list was fetched and the identifier equals,
\* case-insensitively, the key of a project of the list, project resolution
\* returns that project's key and no error, whatever else the identifier
\* is contained in.
C1_ExactKeyPrecedence ==
  \A k \in Calls("validate_project_access") :
    (tool \in UtilsTools /\ trace[k - 1].ok) =>
      \A n \in DOMAIN projects :
        Lower(projects[n].key) = Lower(input.project_identifier) =>
          /\ trace[k].ok
          /\ ~IsError(trace[k].arg.error)
          /\ project_key = projects[n].key

\* C2: in the tools built on utils, a resolved issue key always carries the
\* key of the project that was resolved first as its prefix.
C2_IssueKeyInResolvedProject ==
  (tool \in UtilsTools /\ issue_key # None) =>
    ProjectPrefix(issue_key) = project_key

\* C3: log_work_on_issue calls add_worklog at most once, and only after a
\* successful project resolution, a successful issue resolution and a
\* successful date parse, in that order; once any of these stages has
\* failed there is no add_worklog call and no recorded worklog.
C3_WriteOnlyAfterAllStages ==
  tool = "log_work_on_issue" =>
    /\ Cardinality(Calls("add_worklog")) <= 1
    /\ \A w \in Calls("add_worklog") :
         \E a, b, c \in 1..(w - 1) :
           /\ a < b /\ b < c
           /\ trace[a].op = "validate_project_access" /\ trace[a].ok
           /\ trace[b].op = "resolve_issue_identifier" /\ trace[b].ok
           /\ trace[c].op = "dateparser.parse" /\ trace[c].ok
    /\ (\E k \in DOMAIN trace :
           /\ trace[k].op \in {"validate_project_access",
                                "resolve_issue_identifier", "dateparser.parse"}
           /\ ~trace[k].ok)
         => /\ Calls("add_worklog") = {}
            /\ written = <<>>
            /\ pc = "done"
            /\ result.icon = "fail"

C3_Witness ==
  /\ tool = "log_work_on_issue"
  /\ pc = "done"
  /\ result.icon = "ok"
  /\ Len(written) = 1
  /\ Cardinality(Calls("add_worklog")) = 1

\* C4: in log_work_on_issue and in the batch, add_worklog is never called
\* with a time_spent that is empty or outside the duration grammar.
C4_MalformedDurationNeverWritten ==
  tool \in {"log_work_on_issue", "batch_log_work"} =>
    \A w \in Calls("add_worklog") : validate_time_format(trace[w].arg.timeSpent)

\* C5: when the date parser returns no date, add_worklog is not called for
\* that request (or batch item), nothing is raised, and the failure message
\* quotes the date string as it was given.
C5_UnparsedDateQuoted ==
  /\ tool = "log_work_on_issue" =>
       \A d \in Calls("dateparser.parse") :
         ~trace[d].ok =>
           /\ Calls("add_worklog") = {}
           /\ pc = "done"
           /\ result.icon = "fail"
           /\ result.kind = "date_not_understood"
           /\ result.quoted = input.work_start_date
  /\ tool = "batch_log_work" =>
       \A d \in Calls("dateparser.parse") :
         ~trace[d].ok =>
           LET item == trace[d].item IN
           /\ \A w \in Calls("add_worklog") : trace[w].item # item
           /\ Len(report) >= item
           /\ report[item].icon = "fail"
           /\ report[item].message.kind = "date_invalid"
           /\ report[item].message.quoted = input.work_logs[item].work_start_date
           /\ result.icon # "raise"

C5_Witness ==
  /\ tool = "batch_log_work"
  /\ pc = "done"
  /\ result.kind = "report"
  /\ \E d \in Calls("dateparser.parse") :
       /\ ~trace[d].ok
       /\ report[trace[d].item].message.kind = "date_invalid"
       /\ report[trace[d].item].message.quoted = "not a date"

\* C6: add_worklog_to_issue never calls add_worklog for a request whose
\* non-empty work_date cannot be parsed.
C6_UnparseableDateNotWritten ==
  (tool = "add_worklog_to_issue" /\ input.work_date # ""
     /\ DateutilRaises(input.work_date)) =>
    Calls("add_worklog") = {}

\* C7: in log_work_on_issue, update_issue_estimates and update_issue_status
\* every issue-scoped call comes after a successful project resolution, and
\* when project resolution returns an error the call has ended with that
\* error and made no issue search, issue fetch or tracker write.
C7_ProjectFailFast ==
  tool \in {"log_work_on_issue", "update_issue_estimates", "update_issue_status"} =>
    /\ \A k \in DOMAIN trace :
         trace[k].op \in IssueScopedOps =>
           \E v \in 1..(k - 1) :
             trace[v].op = "validate_project_access" /\ trace[v].ok
    /\ \A v \in Calls("validate_project_access") :
         ~trace[v].ok =>
           /\ pc = "done"
           /\ result.icon = "fail"
           /\ result.kind = "error"
           /\ result.error = trace[v].arg.error
           /\ result.error.kind = "project_error"
           /\ \A k \in DOMAIN trace : trace[k].op \notin IssueScopedOps
           /\ written = <<>>

C7_Witness ==
  /\ tool = "update_issue_estimates"
  /\ pc = "done"
  /\ result.kind = "error"
  /\ result.error.kind = "project_error"
  /\ result.error.cause.kind = "project_ambiguous"
  /\ \A k \in DOMAIN trace : trace[k].op \notin IssueScopedOps

\* C8: batch_log_work resolves the project once, before any item; when
\* that resolution fails the batch has ended with one critical-error
\* message and no item was attempted.
C8_BatchResolvesProjectOnce ==
  tool = "batch_log_work" =>
    /\ Cardinality(Calls("validate_project_access")) <= 1
    /\ (pc \in {"bl_resolve", "bl_log"}
          \/ (pc = "done" /\ result.kind \in {"critical", "no_items", "report"}))
         => Cardinality(Calls("validate_project_access")) = 1
    /\ \A k \in DOMAIN trace :
         trace[k].item > 0 =>
           \E v \in 1..(k - 1) :
             trace[v].op = "validate_project_access" /\ trace[v].ok
    /\ \A v \in Calls("validate_project_access") :
         ~trace[v].ok =>
           /\ pc = "done"
           /\ result.icon = "fail"
           /\ result.kind = "critical"
           /\ result.error = trace[v].arg.error
           /\ \A k \in DOMAIN trace : trace[k].item = 0
           /\ i = 0
           /\ report = <<>>
           /\ written = <<>>

C8_Witness ==
  /\ tool = "batch_log_work"
  /\ pc = "done"
  /\ result.kind = "critical"
  /\ Len(input.work_logs) >= 2
  /\ Cardinality(Calls("validate_project_access")) = 1

\* the items whose processing has started, in the order it started
RECURSIVE AttemptedFrom(_)
AttemptedFrom(k) ==
  IF k > Len(trace) THEN <<>>
  ELSE IF trace[k].op = "resolve_issue_identifier"
    THEN <<trace[k].item>> \o AttemptedFrom(k + 1)
  ELSE AttemptedFrom(k + 1)

Attempted == AttemptedFrom(1)

\* the worklogs of the add_worklog calls that completed, in call order
RECURSIVE CompletedFrom(_)
CompletedFrom(k) ==
  IF k > Len(trace) THEN <<>>
  ELSE IF trace[k].op = "add_worklog" /\ trace[k].ok
    THEN <<[issue |-> trace[k].arg.issue, timeSpent |-> trace[k].arg.timeSpent,
            started |-> trace[k].arg.started]>> \o CompletedFrom(k + 1)
  ELSE CompletedFrom(k + 1)

\* C9: once the project is resolved, the batch attempts the items one by
\* one in input order, each exactly once, and ends only when every item has
\* been attempted, whatever failed on the way; the writes of the items that
\* succeeded stay applied.
C9_BatchNeverStopsEarly ==
  tool = "batch_log_work" =>
    /\ Attempted = [k \in 1..Len(Attempted) |-> k]
    /\ Len(Attempted) = (IF pc = "bl_resolve" THEN i - 1 ELSE i)
    /\ i <= Len(input.work_logs)
    /\ (pc = "done" /\ project_key # None /\ input.work_logs # <<>>) =>
         /\ result.kind = "report"
         /\ Len(Attempted) = Len(input.work_logs)
    /\ Len(written) = Len(CompletedFrom(1))
    /\ \A k \in DOMAIN written :
         /\ written[k].issue = CompletedFrom(1)[k].issue
         /\ written[k].timeSpent = CompletedFrom(1)[k].timeSpent
         /\ written[k].started = CompletedFrom(1)[k].started

C9_Witness ==
  /\ tool = "batch_log_work"
  /\ pc = "done"
  /\ Len(input.work_logs) = 3
  /\ Attempted = <<1, 2, 3>>
  /\ report[1].icon = "fail"
  /\ report[2].icon = "fail"
  /\ report[3].icon = "ok"
  /\ Len(written) = 1

\* C10: once the project is resolved and the list is not empty, the report
\* holds one entry per processed item, in input order; the entry of an item
\* is a success entry exactly when the add_worklog call of that item
\* completed, and a failure entry about that item otherwise; the returned
\* report has as many entries as the input has items.
C10_ReportMatchesWrites ==
  tool = "batch_log_work" =>
    /\ pc = "bl_resolve" => Len(report) = i - 1
    /\ pc = "bl_log" => Len(report) = i - 1
    /\ (pc = "done" /\ result.kind = "report") =>
         /\ result.entries = report
         /\ Len(report) = Len(input.work_logs)
    /\ \A k \in DOMAIN report :
         /\ report[k].icon \in {"ok", "fail"}
         /\ report[k].icon = "ok" <=>
              \E w \in Calls("add_worklog") : trace[w].item = k /\ trace[w].ok
         /\ report[k].kind = "task_failed" =>
              report[k].quoted = input.work_logs[k].issue_identifier
         /\ (report[k].kind = "item" /\ report[k].message.kind = "logged") =>
              /\ report[k].message.time_spent = input.work_logs[k].time_spent
              /\ \E w \in Calls("add_worklog") :
                   /\ trace[w].item = k
                   /\ trace[w].arg.issue = report[k].message.issue_key

C10_Witness ==
  /\ tool = "batch_log_work"
  /\ pc = "done"
  /\ result.kind = "report"
  /\ Len(result.entries) = 3
  /\ result.entries[1].icon = "ok"
  /\ result.entries[2].icon = "fail"
  /\ result.entries[3].icon = "ok"
  /\ Len(written) = 2

\* C11: in batch_create_issues, an item whose issue was created and whose
\* work-logging step then failed is reported as a warning that names the
\* created issue, never as a failure.
C11_PartialSuccessWarning ==
  tool = "batch_create_issues" =>
    \A c \in Calls("create_issue") :
      (/\ trace[c].ok
       /\ Len(report) >= trace[c].item
       /\ \E f \in DOMAIN trace :
            /\ trace[f].item = trace[c].item
            /\ trace[f].op \in {"is_valid_date", "dateparser.parse", "add_worklog"}
            /\ ~trace[f].ok)
      => /\ report[trace[c].item].icon = "warn"
         /\ report[trace[c].item].issue_key = trace[c].arg.key

\* the identifier handed to the project resolution logged at position k
ProjectQuery(k) ==
  IF tool = "batch_create_issues"
    THEN input.issues_to_create[trace[k].item].project_name_or_key
  ELSE IF tool = "create_issue"
    THEN input.project_name_or_key
  ELSE input.project_identifier

\* project resolutions of utils whose project list was fetched
Resolutions ==
  { k \in Calls("validate_project_access") : trace[k - 1].ok }

\* positions, in the project list, of the projects an identifier matches
MatchedProjects(q) ==
  { n \in DOMAIN projects :
      \/ Lower(projects[n].key) = Lower(q)
      \/ Contains(Lower(q), Lower(projects[n].name))
      \/ /\ projects[n].description # <<>>
         /\ Contains(Lower(q), Lower(projects[n].description)) }

\* C12: with the project list fetched, an identifier that equals no key and
\* is contained in no name or description gives no key and the not-found
\* error naming the identifier.
C12_NoMatchIsNotFound ==
  \A k \in Resolutions :
    MatchedProjects(ProjectQuery(k)) = {} =>
      /\ trace[k].arg.key = None
      /\ trace[k].arg.error.kind = "project_error"
      /\ trace[k].arg.error.cause.kind = "project_not_found"
      /\ trace[k].arg.error.cause.identifier = ProjectQuery(k)

C12_Witness ==
  /\ tool = "update_issue_status"
  /\ pc = "done"
  /\ Len(projects) = 2
  /\ \E k \in Resolutions :
       /\ MatchedProjects(ProjectQuery(k)) = {}
       /\ trace[k].arg.error.cause.kind = "project_not_found"

\* C13: an identifier that matches exactly one project of the list, by key,
\* name or description, resolves to that project's key with no error.
C13_SingleMatchResolves ==
  \A k \in Resolutions :
    \A n \in DOMAIN projects :
      MatchedProjects(ProjectQuery(k)) = {n} =>
        /\ trace[k].ok
        /\ trace[k].arg.key = projects[n].key
        /\ ~IsError(trace[k].arg.error)

C13_Witness ==
  /\ tool = "log_work_on_issue"
  /\ Len(projects) = 2
  /\ input.project_identifier = <<"t","o","o","l","s">>
  /\ \E k \in Resolutions :
       /\ MatchedProjects(ProjectQuery(k)) = {2}
       /\ trace[k].arg.key = <<"O","P","S">>

C15_EmptyIdentifierAmbiguous ==
  \A k \in Resolutions :
    (ProjectQuery(k) = <<>> /\ projects # <<>>) =>
      /\ trace[k].arg.key = None
      /\ trace[k].arg.error.cause.kind = "project_ambiguous"

\* C15 amended: the empty identifier raises nothing; with two or more
\* projects it gives the ambiguity outcome over all of them, and with
\* exactly one project it resolves to that project; it is never not-found
\* for a non-empty list.
C15_EmptyIdentifierMatchesAll ==
  \A k \in Resolutions :
    ProjectQuery(k) = <<>> =>
      /\ Len(projects) >= 2 =>
           /\ trace[k].arg.key = None
           /\ trace[k].arg.error.cause.kind = "project_ambiguous"
           /\ trace[k].arg.error.cause.candidates =
                [n \in 1..Len(projects) |-> projects[n].key]
      /\ Len(projects) = 1 =>
           /\ trace[k].arg.key = projects[1].key
           /\ ~IsError(trace[k].arg.error)
      /\ Len(projects) = 0 =>
           trace[k].arg.error.cause.kind = "project_not_found"

C15_Witness ==
  /\ tool = "batch_log_work"
  /\ input.project_identifier = <<>>
  /\ Len(projects) = 2
  /\ \E k \in Resolutions :
       trace[k].arg.error.cause.kind = "project_ambiguous"

\* letters, one hyphen, digits, and nothing else
LettersHyphenDigits(s) ==
  \E h \in 2..(Len(s) - 1) :
    /\ s[h] = "-"
    /\ \A j \in 1..(h - 1) : IsUpperLetter(s[j]) \/ IsLowerLetter(s[j])
    /\ \A j \in (h + 1)..Len(s) : s[j] \in Digits

\* the resolution logged at position k was preceded by its title search
Searched(k) ==
  /\ k > 1
  /\ trace[k - 1].op = "search_issues"
  /\ trace[k - 1].item = trace[k].item

\* C16: an identifier of the shape letters-hyphen-digits, in any letter
\* case, is returned uppercased with no error and no tracker call; every
\* identifier not of that shape goes to the title search.
C16_KeyShapeFastPath ==
  \A k \in Calls("resolve_issue_identifier") :
    LET identifier == trace[k].arg.identifier IN
    IF LettersHyphenDigits(identifier)
      THEN /\ trace[k].arg.key = Upper(identifier)
           /\ ~IsError(trace[k].arg.error)
           /\ ~Searched(k)
      ELSE Searched(k)

\* issues of a project whose title contains the text, whatever the case
TitleMatches(pkey, text) ==
  { n \in DOMAIN TrackerIssues :
      /\ Lower(TrackerIssues[n].project) = Lower(pkey)
      /\ Contains(Lower(text), Lower(TrackerIssues[n].summary)) }

\* resolutions that took the slow path and whose title search returned
SlowPath ==
  { k \in Calls("resolve_issue_identifier") : Searched(k) /\ trace[k - 1].ok }

\* C17: on the slow path, a title search with no hit gives the not-found
\* error naming the identifier, with exactly one hit it gives that issue's
\* key and no error, and with more than one hit it gives a disambiguation
\* error and no key.
C17_SlowPathZeroOneMany ==
  \A k \in SlowPath :
    LET hits == TitleMatches(trace[k].arg.project_key, trace[k].arg.identifier)
        error == trace[k].arg.error
    IN /\ hits = {} =>
            /\ trace[k].arg.key = None
            /\ error.kind = "issue_error"
            /\ error.cause.kind = "issue_not_found"
            /\ error.cause.summary = trace[k].arg.identifier
       /\ \A n \in hits :
            hits = {n} =>
              /\ trace[k].arg.key = TrackerIssues[n].key
              /\ ~IsError(error)
       /\ Cardinality(hits) > 1 =>
            /\ trace[k].arg.key = None
            /\ error.kind = "issue_error"
            /\ error.cause.kind = "issue_ambiguous"

C17_Witness ==
  /\ tool = "log_work_on_issue"
  /\ pc = "done"
  /\ \E k \in SlowPath :
       /\ Cardinality(TitleMatches(trace[k].arg.project_key,
                                   trace[k].arg.identifier)) = 2
       /\ trace[k].arg.error.cause.kind = "issue_ambiguous"
       /\ result.icon = "fail"

\* C18: when the title search returns n > 1 issues, the disambiguation
\* lists at most 5 candidates and, when n > 5, states the count n - 5 of
\* the matches it left out.
C18_DisambiguationListsAtMostFive ==
  \A k \in SlowPath :
    LET n == Cardinality(TitleMatches(trace[k].arg.project_key,
                                      trace[k].arg.identifier))
        error == trace[k].arg.error
    IN n > 1 =>
         /\ error.kind = "issue_error"
         /\ error.cause.kind = "issue_ambiguous"
         /\ Len(error.cause.candidates) <= 5
         /\ n > 5 =>
              /\ "remaining" \in DOMAIN error.cause
              /\ error.cause.remaining = n - 5

\* the tool entry points the agent runtime calls
EntryPoints ==
  { "log_work_on_issue", "batch_log_work", "batch_create_issues",
    "create_issue", "update_issue_estimates", "update_issue_status" }

\* C19: every tool entry point ends by returning a result, whatever its
\* input and whichever call fails: no exception leaves the entry point.
C19_NoExceptionEscapes ==
  (tool \in EntryPoints /\ pc = "done") =>
    /\ result # NoResult
    /\ result.icon \in {"ok", "warn", "fail", "none"}

C19_Witness ==
  /\ tool = "create_issue"
  /\ pc = "done"
  /\ result = CiExcept("AttributeError")
  /\ \E c \in Calls("create_issue") : trace[c].ok
  /\ \E f \in Calls("is_valid_date") : ~trace[f].ok

\* what ProjectService.validate_project_access gives for an identifier that
\* matches no project
NotFoundOutcome(identifier) ==
  ProjectService_validate_project_access("ok", <<>>, identifier).raised

\* C20: through ProjectService.validate_project_access, an identifier that
\* matches two or more projects gives an outcome the caller can tell from
\* the outcome of an identifier that matches none, and that outcome carries
\* the matching candidates.
C20_AmbiguousDistinguishable ==
  \A k \in Calls("ProjectService.validate_project_access") :
    LET identifier == trace[k].arg.identifier
        matched == MatchedProjects(identifier)
        exact == { n \in matched : Lower(projects[n].key) = Lower(identifier) }
    IN (trace[k - 2].ok /\ exact = {} /\ Cardinality(matched) >= 2) =>
         /\ trace[k].arg.raised # NotFoundOutcome(identifier)
         /\ "candidates" \in DOMAIN trace[k].arg.raised
\* the text without the blanks at its two ends
Trimmed(s) ==
  LET inner == { n \in DOMAIN s : s[n] \notin Whitespace }
  IN IF inner = {} THEN <<>>
     ELSE LET first == CHOOSE n \in inner : \A m \in inner : n <= m
              last  == CHOOSE n \in inner : \A m \in inner : m <= n
          IN SubSeq(s, first, last)

IsUnit(c) == c \in {"w", "d", "h", "m", "W", "D", "H", "M"}

\* a non-empty run of <integer><unit> tokens, blanks allowed after a token
IsTokenSequence(s) ==
  /\ s # <<>>
  /\ s[1] \in Digits
  /\ IsUnit(s[Len(s)])
  /\ \A n \in DOMAIN s :
       /\ s[n] \in Digits \cup Whitespace \/ IsUnit(s[n])
       /\ IsUnit(s[n]) => s[n - 1] \in Digits
       /\ (s[n] \in Digits /\ n < Len(s)) => (s[n + 1] \in Digits \/ IsUnit(s[n + 1]))
       /\ (s[n] \in Whitespace) => (IsUnit(s[n - 1]) \/ s[n - 1] \in Whitespace)

\* C21: validate_time_format is true exactly for the texts that, trimmed,
\* are a non-empty sequence of <integer><unit> tokens with unit w, d, h or m
\* in either case and optional blanks between tokens; a repeated unit is
\* accepted.
C21_TimeFormatIsTokenSequence ==
  (tool = "validate_time_format" /\ pc = "done") =>
    result.valid = IsTokenSequence(Trimmed(input.time_string))

C21_Witness ==
  /\ tool = "validate_time_format"
  /\ pc = "done"
  /\ input.time_string = <<" ", "2", "h", " ">>
  /\ result.valid

\* positions of the unit letters of a text, and the rank of a unit
UnitPositions(s) == { n \in DOMAIN s : IsUnit(s[n]) }

UnitRank(c) ==
  CASE LowerChar(c) = "w" -> 4
    [] LowerChar(c) = "d" -> 3
    [] LowerChar(c) = "h" -> 2
    [] LowerChar(c) = "m" -> 1

\* C22: in every duration that passes validation, no token with a smaller
\* unit precedes a token with a larger unit.
C22_ValidatedUnitsOrdered ==
  (/\ tool = "validate_time_format"
   /\ pc = "done"
   /\ Strip(input.time_string) # <<>>
   /\ result.valid
   /\ result.service.is_valid) =>
    \A a, b \in UnitPositions(input.time_string) :
      a < b => UnitRank(input.time_string[a]) >= UnitRank(input.time_string[b])
\* C23: once get_jira_client has returned an instance, every later call
\* with no reset in between returns that same instance and constructs no
\* further client.
C23_ClientCreatedOnce ==
  [][(returned # {} /\ returned' # {}) =>
       (returned' = returned /\ clients' = clients)]_vars

C23_Witness ==
  /\ tool = "get_jira_client"
  /\ pc = "done"
  /\ trace = <<>>
  /\ result.kind = "client"
  /\ returned = {result.instance}
  /\ Len(clients) = 1

\* C30: every instance get_jira_client returns has passed test_connection,
\* and an initialization whose connection test fails leaves the handle
\* unset.
C30_OnlyVerifiedClients ==
  /\ \A n \in returned : clients[n].tested
  /\ jira_client_service # 0 => clients[jira_client_service].tested
\* C24: a create_issue request that supplies time_spent with an empty or
\* invalid work_start_date is rejected without any create_issue call
\* having been made.
C24_RejectedDateCreatesNothing ==
  (/\ tool = "create_issue"
   /\ input.time_spent # <<>>
   /\ input.work_start_date \notin IsoDateTexts) =>
    Calls("create_issue") = {}
\* C25: in batch_create_issues, an item that supplies time_spent is
\* reported as a plain success only if a worklog was recorded on the
\* created issue; with no work_start_date it is reported as a problem.
C25_TimeNeverSilentlyDropped ==
  tool = "batch_create_issues" =>
    \A n \in 1..Len(report) :
      (input.issues_to_create[n].time_spent # <<>> /\ report[n].icon = "ok") =>
        \E w \in Calls("add_worklog") : trace[w].item = n /\ trace[w].ok
\* C26: in JiraClientService.find_project and in the agents'
\* _find_project_key_by_name_or_key, an identifier that equals a project's
\* key, whatever the letter case, gives that key, whichever other projects
\* contain the identifier in their name or description.
C26_ServiceExactKeyWins ==
  /\ \A k \in Calls("find_project") :
       trace[k - 1].ok =>
         \A n \in DOMAIN projects :
           Lower(projects[n].key) = Lower(trace[k].arg.identifier) =>
             /\ trace[k].arg.key = projects[n].key
             /\ ~IsError(trace[k].arg.error)
  /\ \A k \in Calls("_find_project_key_by_name_or_key") :
       trace[k - 1].ok =>
         \A n \in DOMAIN projects :
           Lower(projects[n].key) = Lower(trace[k].arg.identifier) =>
             trace[k].arg.value = [kind |-> "key", key |-> projects[n].key]

C26_Witness ==
  /\ tool = "list_issues"
  /\ Len(projects) = 2
  /\ \E k \in Calls("find_project") :
       /\ trace[k - 1].ok
       /\ Lower(projects[2].key) = Lower(trace[k].arg.identifier)
       /\ MatchedProjects(trace[k].arg.identifier) = {1, 2}
       /\ trace[k].arg.key = projects[2].key

\* the same case reached through the agents' function
C26_AgentWitness ==
  /\ tool = "_find_project_key_by_name_or_key"
  /\ pc = "done"
  /\ Len(projects) = 2
  /\ Lower(projects[2].key) = Lower(input.project_identifier)
  /\ Contains(Lower(input.project_identifier), Lower(projects[1].name))
  /\ result.value = [kind |-> "key", key |-> projects[2].key]
\* issues whose title contains the text, in one project or, with no
\* project given, in all of them
TitleHits(scope, text) ==
  { n \in DOMAIN TrackerIssues :
      /\ scope # <<>> => Lower(TrackerIssues[n].project) = Lower(scope)
      /\ Contains(Lower(text), Lower(TrackerIssues[n].summary)) }

\* C27: in WorklogService.resolve_issue_identifier and
\* JiraClientService.find_issue_by_summary, a title search with n > 1 hits
\* gives no key and a message listing exactly min(n, 5) candidates in the
\* order of the search result (newest first), and the message states the
\* remainder n - 5 if and only if n > 5.
C27_ServiceLookupListsFive ==
  \A k \in Calls("lookup") :
    LET hits == TitleHits(trace[k].arg.scope, trace[k].arg.text)
        n == Cardinality(hits)
        tried == k > 1 /\ trace[k - 1].op \in {"JiraClientService.search_issues",
                                               "search_issues_by_summary"}
        failed == trace[k - 1].op = "JiraClientService.search_issues"
                    /\ ~trace[k - 1].ok
    IN (tried /\ ~failed /\ n > 1) =>
         /\ trace[k].arg.raised = NoException
         /\ trace[k].arg.key = None
         /\ trace[k].arg.error.kind = "issue_ambiguous"
         /\ Len(trace[k].arg.error.listed) = (IF n < 5 THEN n ELSE 5)
         /\ \A h \in hits :
              LET place == Cardinality({m \in hits : m >= h})
              IN place <= 5 => trace[k].arg.error.listed[place] = TrackerIssues[h].key
         /\ trace[k].arg.error.more = (IF n > 5 THEN n - 5 ELSE 0)
\* a text with nothing but blanks in it, the empty text included
IsBlank(s) == \A n \in DOMAIN s : s[n] \in Whitespace

\* C28: validate_worklog_data with a non-blank time_spent and an empty or
\* blank work_date is invalid with the date-required error; with an empty
\* or blank time_spent, an empty work_date is accepted.
C28_DateRequiredWithTime ==
  (tool = "validate_worklog_data" /\ pc = "done") =>
    /\ (~IsBlank(input.time_spent) /\ IsBlank(input.work_date)) =>
         /\ ~result.value.is_valid
         /\ \E n \in DOMAIN result.value.errors :
              result.value.errors[n] = "date_required"
    /\ (IsBlank(input.time_spent) /\ IsBlank(input.work_date)) =>
         /\ result.value.is_valid
         /\ result.value.errors = <<>>

C28_Witness ==
  /\ tool = "validate_worklog_data"
  /\ pc = "done"
  /\ input.time_spent = <<" ", "2", "h", " ">>
  /\ input.work_date = <<" ", " ">>
  /\ result.value.errors = << "date_required" >>
\* C29: a call of update_issue_status that has resolved its issue calls
\* transition_issue at most once, and only with the id of the first
\* available transition whose target equals the wanted status without
\* regard to case; when no available transition has that target, the call
\* returns the error that lists the available target statuses, and executes
\* no transition.
C29_TransitionOnceOrListed ==
  (tool = "update_issue_status" /\ pc = "done" /\ Calls("find_closest_status") # {}) =>
    LET executed == Calls("transition_issue")
        matching == { n \in DOMAIN IssueTransitions :
                        Lower(IssueTransitions[n].to) = Lower(input.new_status) }
    IN /\ Cardinality(executed) <= 1
       /\ \A k \in executed :
            /\ matching # {}
            /\ \A n \in matching :
                 (\A m \in matching : n <= m) => trace[k].arg.id = IssueTransitions[n].id
       /\ matching = {} =>
            /\ executed = {}
            /\ result.kind = "no_transition"
            /\ result.available = [n \in DOMAIN IssueTransitions |-> IssueTransitions[n].to]
====
